---------------------------- MODULE Spec2Model ----------------------------
(***************************************************************************)
(* owl-transfer: a file is split into checksummed chunks, each chunk is    *)
(* framed, shown as a colour grid by the sender, captured from the screen  *)
(* by the receiver, deserialized, verified and collected in a table from   *)
(* which the file is assembled.                                            *)
(*                                                                         *)
(* Numbers.  TLC's integers are 32-bit signed, the program's are uint32,   *)
(* uint64 and 64-bit int.  A uint32 is the pair <<hi, lo>> of its 16-bit   *)
(* halves, a uint64 the tuple of its four 16-bit limbs, a Go int that may  *)
(* exceed 2^31 (a buffer length) a pair <<hi, lo>> with hi unbounded.      *)
(*                                                                         *)
(* The sender's startTransfer and stopTransfer run when their button is    *)
(* enabled.  The receiver's buttons are created disabled and nothing       *)
(* enables them, so its handlers are taken as entry points that may be     *)
(* called at any time.                                                     *)
(***************************************************************************)
EXTENDS Integers, Sequences, FiniteSets, TLC

(* ------------------------------ bounds -------------------------------- *)

\* Length in bytes of the sample document (two chunks).
DocLen == 150
\* Goroutine slots for capture loops.
MaxLoops == 2
\* Sleeping timer goroutines of the sender that the model keeps apart.
MaxTimers == 2
\* Copies the received-chunk table may hold in total.
MaxRecorded == 2
\* Highest chunk index in the tables assembleFile is run on.
MaxIndex == 2
\* Copies per index in those tables.
MaxCopies == 2
\* Longest buffer handed to DeserializeChunk on its own.
MaxFrame == 70
\* Largest small payload length such a buffer declares.
MaxDeclared == 20
\* Longest of the short payloads VerifyChunk is applied to.
MaxPayload == 12
\* Longest stream CreateChunks is applied to, the example apart.
MaxStream == 220
\* Most parity symbols of a Reed-Solomon codec.
MaxRoots == 3
\* Longest data block given to RS.Encode.
MaxBlock == 3
\* Most non-white samples in a capture DetectQRRegion is applied to.
MaxDots == 3
\* Largest data size a grid is chosen for.
MaxDataSize == 400
\* Largest width and height of a colour grid, in cells.
MaxGrid == 2
\* Largest width and height of the image a grid is drawn into, in pixels.
MaxImage == 5

(* ------------------------- program constants -------------------------- *)

\* chunk.NewConfig(100, 1)
ChunkSize == 100
\* Checksum [32]byte
ChecksumWidth == 32
\* if len(data) < 45
MinFrameLen == 45

(* ------------------------------ numbers ------------------------------- *)

Half == 256 * 256

\* uint32(n) of a small natural n
U32(n) == <<(n \div Half) % Half, n % Half>>

\* u + k in uint32 arithmetic (wraps at 2^32), k a small natural
U32Add(u, k) ==
    LET lo == u[2] + k
    IN  <<(u[1] + (lo \div Half)) % Half, lo % Half>>

\* a Go int of any size, from a small natural
Wide(n) == <<n \div Half, n % Half>>

\* w + k for a Go int w, no wrap
WideAdd(w, k) ==
    LET lo == w[2] + k
    IN  <<w[1] + (lo \div Half), lo % Half>>

\* a < b, for uint32 pairs and for Go ints alike
Less(a, b) == a[1] < b[1] \/ (a[1] = b[1] /\ a[2] < b[2])

Leq(a, b) == ~Less(b, a)

\* uint32(len(data)): the low 32 bits of a Go int
Trunc32(w) == <<w[1] % Half, w[2]>>

\* the natural a pair stands for, where it fits TLC's integers
ToNat(w) == w[1] * Half + w[2]

\* byte(x>>24), byte(x>>16), byte(x>>8), byte(x)
BE32(u) == <<(u[1] \div 256) % 256, u[1] % 256, (u[2] \div 256) % 256, u[2] % 256>>

\* uint32(d[off])<<24 | uint32(d[off+1])<<16 | uint32(d[off+2])<<8 | uint32(d[off+3])
\* (off is the Go offset, the sequence is 1-based)
ReadBE32(d, off) ==
    <<d[off + 1] * 256 + d[off + 2], d[off + 3] * 256 + d[off + 4]>>

\* binary.BigEndian.PutUint64
BE64(t) ==
    <<t[1] \div 256, t[1] % 256, t[2] \div 256, t[2] % 256,
      t[3] \div 256, t[3] % 256, t[4] \div 256, t[4] % 256>>

\* binary.BigEndian.Uint64 of the eight bytes at Go offset off
ReadBE64(d, off) ==
    <<d[off + 1] * 256 + d[off + 2], d[off + 3] * 256 + d[off + 4],
      d[off + 5] * 256 + d[off + 6], d[off + 7] * 256 + d[off + 8]>>

\* metadata.Timestamp + uint64(i), i a small natural
U64Add(t, i) ==
    LET l4 == t[4] + i
        l3 == t[3] + (l4 \div Half)
        l2 == t[2] + (l3 \div Half)
        l1 == t[1] + (l2 \div Half)
    IN  <<l1 % Half, l2 % Half, l3 % Half, l4 % Half>>

Zeros(n) == [i \in 1..n |-> 0]

\* The sum of d[lo..hi], halving the range (a flat recursion of depth log n).
RECURSIVE SumBytes(_, _, _)
SumBytes(d, lo, hi) ==
    IF lo > hi THEN 0
    ELSE IF lo = hi THEN d[lo]
    ELSE LET mid == (lo + hi) \div 2
         IN  SumBytes(d, lo, mid) + SumBytes(d, mid + 1, hi)

\* The sum of i * d[i] over lo..hi, modulo 65521.
RECURSIVE WeightedSum(_, _, _)
WeightedSum(d, lo, hi) ==
    IF lo > hi THEN 0
    ELSE IF lo = hi THEN (lo * d[lo]) % 65521
    ELSE LET mid == (lo + hi) \div 2
         IN  (WeightedSum(d, lo, mid) + WeightedSum(d, mid + 1, hi)) % 65521

(* ------------------------------ chunk --------------------------------- *)

\* A checksum that depends on the length of the payload only.
DigestOfLength(d) == <<1, Len(d) % 256>> \o Zeros(ChecksumWidth - 2)

\* sha256.Sum256, as a 32-byte checksum that no two payloads of the model
\* share and that changes with every single-byte change of the payload
\* (the byte sum changes by the byte's change, which is not 0 mod 256).
Digest(d) ==
    LET s == SumBytes(d, 1, Len(d))
        w == WeightedSum(d, 1, Len(d))
    IN  <<1, Len(d) % 256, s % 256, (s \div 256) % 256, w % 256, w \div 256>>
        \o Zeros(ChecksumWidth - 6)

\* the zero value of Checksum [32]byte
ZeroChecksum == Zeros(ChecksumWidth)

\* the zero value of a uint64
ZeroStamp == <<0, 0, 0, 0>>

\* A verification that accepts every chunk.
VerifyChunkAcceptAll(chunk) == TRUE

VerifyChunk(chunk) == Digest(chunk.Data) = chunk.Checksum

\* The length bytes of the header, from len(chunk.Data) as a Go int.
LenBytes(n) == <<(n[1] \div 256) % 256, n[1] % 256, (n[2] \div 256) % 256, n[2] % 256>>

SerializeChunk(chunk) ==
    BE32(chunk.Index) \o BE32(chunk.Total) \o LenBytes(Wide(Len(chunk.Data)))
        \o chunk.Data \o chunk.Checksum \o BE64(chunk.Timestamp)

\* len(SerializeChunk(chunk)) for a payload of n bytes, n a Go int
SerializedLen(n) == WideAdd(n, 12 + ChecksumWidth + 8)

\* The path DeserializeChunk takes, which depends only on n = len(data)
\* (a Go int) and on dataLen, the uint32 read from data[8:12]:
\*   "short"  io.ErrShortBuffer
\*   "panic"  a slice expression out of range
\*   "ok"     a chunk is returned
\* The buffer's capacity is taken to be its length.
DeserializePath(n, dataLen) ==
    LET expectedLen == U32Add(dataLen, 12 + ChecksumWidth + 8)
        endData == U32Add(dataLen, 12)
        endSum == U32Add(dataLen, 12 + ChecksumWidth)
    IN  IF Less(n, Wide(MinFrameLen)) THEN "short"
        ELSE IF Less(Trunc32(n), expectedLen) THEN "short"
        \* data[12:12+dataLen]
        ELSE IF Less(endData, U32(12)) \/ Less(n, endData) THEN "panic"
        \* data[12+dataLen:12+dataLen+32]
        ELSE IF Less(endSum, endData) \/ Less(n, endSum) THEN "panic"
        \* binary.BigEndian.Uint64(data[12+dataLen+32:])
        ELSE IF Less(n, WideAdd(endSum, 8)) THEN "panic"
        ELSE "ok"

DeserializeChunk(data) ==
    LET dataLen == ReadBE32(data, 8)
        path == IF Len(data) < 12 THEN "short"
                ELSE DeserializePath(Wide(Len(data)), dataLen)
    IN  IF path # "ok" THEN [err |-> path]
        ELSE LET k == ToNat(dataLen)
             IN  [err |-> "none",
                  chunk |-> [Index |-> ReadBE32(data, 0),
                             Total |-> ReadBE32(data, 4),
                             Data |-> SubSeq(data, 13, 12 + k),
                             Checksum |-> SubSeq(data, 13 + k, 12 + k + ChecksumWidth),
                             Timestamp |-> ReadBE64(data, 12 + k + ChecksumWidth)]]

(* ----------------------------- metadata ------------------------------ *)

\* The zero value of chunk.FileMetadata.
ZeroMetadata ==
    [Filename |-> <<>>, FileSize |-> 0, ChunkSize |-> 0, TotalChunks |-> 0,
     Checksum |-> ZeroChecksum, Timestamp |-> ZeroStamp, Redundancy |-> 0]

\* json.Marshal(metadata), as a self-describing document: an opening brace,
\* the length-prefixed file name, the numeric fields, a closing brace.
SerializeMetadata(m) ==
    <<123, Len(m.Filename)>> \o m.Filename
        \o BE32(U32(m.FileSize)) \o BE32(U32(m.ChunkSize)) \o BE32(U32(m.TotalChunks))
        \o m.Checksum \o BE64(m.Timestamp) \o <<m.Redundancy, 125>>

\* json.Unmarshal(data, &metadata): an error unless data is such a document.
DeserializeMetadata(data) ==
    LET n == data[2]
        wellFormed ==
            /\ Len(data) >= 2
            /\ data[1] = 123
            /\ Len(data) = 2 + n + 12 + ChecksumWidth + 8 + 2
            /\ data[Len(data)] = 125
            /\ \A k \in {0, 4, 8} : data[2 + n + k + 1] < 128
    IN  IF ~wellFormed THEN [err |-> "json"]
        ELSE [err |-> "none",
              metadata |->
                [Filename |-> SubSeq(data, 3, 2 + n),
                 FileSize |-> ToNat(ReadBE32(data, 2 + n)),
                 ChunkSize |-> ToNat(ReadBE32(data, 2 + n + 4)),
                 TotalChunks |-> ToNat(ReadBE32(data, 2 + n + 8)),
                 Checksum |-> SubSeq(data, 2 + n + 13, 2 + n + 12 + ChecksumWidth),
                 Timestamp |-> ReadBE64(data, 2 + n + 12 + ChecksumWidth),
                 Redundancy |-> data[Len(data) - 1]]]

(* ---------------------------- CreateChunks ---------------------------- *)

\* What successive file.Read(data) calls return for an *os.File holding
\* bytes: full windows of ChunkSize bytes, then the rest, then (0, io.EOF).
RECURSIVE FileReads(_)
FileReads(bytes) ==
    IF Len(bytes) = 0 THEN <<>>
    ELSE IF Len(bytes) <= ChunkSize THEN <<bytes>>
    ELSE <<SubSeq(bytes, 1, ChunkSize)>>
             \o FileReads(SubSeq(bytes, ChunkSize + 1, Len(bytes)))

\* One chunk-group per Read: the primary chunk and `redundancy` more copies,
\* copy i with timestamp metadata.Timestamp + i.
CreateChunks(reads, metadata, redundancy) ==
    [g \in 1..Len(reads) |->
        [c \in 1..(1 + redundancy) |->
            [Index |-> U32(g - 1),
             Total |-> U32(metadata.TotalChunks),
             Data |-> reads[g],
             Checksum |-> Digest(reads[g]),
             Timestamp |-> U64Add(metadata.Timestamp, c - 1)]]]

(* ------------------------------- grid --------------------------------- *)

\* The square root rounded down.
FloorSqrt(area) == CHOOSE s \in 0..area : s * s <= area /\ (s + 1) * (s + 1) > area

\* int(math.Ceil(math.Sqrt(float64(area))))
CeilSqrt(area) == CHOOSE s \in 0..area : s * s >= area /\ (s = 0 \/ (s - 1) * (s - 1) < area)

OptimalGridSize(dataSize) ==
    LET area == (dataSize + 2) \div 3
        side == CeilSqrt(area)
    IN  IF side % 2 = 0 THEN side + 1 ELSE side

\* BlocksToData(Decode(CreateImage(Encode(serialized)))) for a capture that
\* reads every cell as it was drawn: three bytes per cell, the cells past
\* the data zero.
GridBytes(serialized) ==
    LET side == OptimalGridSize(Len(serialized))
    IN  serialized \o Zeros(side * side * 3 - Len(serialized))

(* ------------------------------ inputs -------------------------------- *)

\* time.Now().UnixNano() when the file is loaded
Now == <<0, 0, 0, 7>>

Doc == [i \in 1..DocLen |-> (7 * i) % 256]

\* A file whose content is itself a metadata document.
Note ==
    SerializeMetadata([Filename |-> <<110>>, FileSize |-> DocLen, ChunkSize |-> ChunkSize,
                       TotalChunks |-> 2, Checksum |-> ZeroChecksum,
                       Timestamp |-> Now, Redundancy |-> 1])

\* The files the user can select: an empty file, a document, the note.
Files == <<(<<>>), Doc, Note>>

RedundancyLevels == {1, 2, 3}

(* ------------------------------- state -------------------------------- *)

VARIABLES
    \* SenderApp
    filename,           \* index into Files of the selected file, 0: none
    metadata,           \* s.metadata
    chunks,             \* s.chunks
    currentChunk,       \* s.currentChunk
    totalChunks,        \* s.totalChunks
    running,            \* s.running
    timers,             \* goroutines sleeping in time.Sleep(s.refreshRate)
    image,              \* s.image.Image
    status,             \* s.status
    startBtn,           \* s.startBtn is enabled
    stopBtn,            \* s.stopBtn is enabled
    redundancySelect,   \* the selected redundancy level
    entered,            \* goroutines in displayCurrentChunk past its first test
    advancing,          \* goroutines in s.currentChunk++: the values they read
    panicked,           \* a goroutine of the sender panicked
    \* history of the sender, read by the properties only
    shown,              \* the frames displayed since the file was loaded
    transfer,           \* "none", "clean" (started once, never stopped), "dirty"
    cancelled,          \* "no"; "stopped" by stopTransfer with no startTransfer
                        \* since; "woken": and a goroutine has since woken
                        \* and found s.running cleared
    \* ReceiverApp
    receivedChunks,     \* r.receivedChunks: index -> copies
    rmetadata,          \* r.metadata
    capturing,          \* r.running
    loops,              \* the captureLoop goroutines: position and chunkData
    mu,                 \* r.mu: 0 free, l held by loop l, -1 held by assembleFile
    progress,           \* what updateStatus last showed
    asm,                \* the assembleFile call: position, locals, what it wrote
    crashed,            \* a goroutine of the receiver panicked
    \* history of the receiver, read by the properties only
    watch,              \* how the captures so far follow the sender's frames
    \* the chunk codec applied to a chosen input
    rt                  \* the input and what came back

\* where the timer goroutines of the sender are
goroutineVars == <<entered, advancing, panicked>>

senderVars ==
    <<filename, metadata, chunks, currentChunk, totalChunks, running, timers,
      image, status, startBtn, stopBtn, redundancySelect, shown, transfer,
      cancelled, goroutineVars>>

\* the receiver's own state
receiverVars ==
    <<receivedChunks, rmetadata, capturing, loops, mu, progress, asm, crashed>>

codecVars == <<rt>>

vars == <<senderVars, receiverVars, watch, codecVars>>

Placeholder == [kind |-> "placeholder"]

\* A goroutine slot with no goroutine in it.
NoLoop == [pc |-> "none"]

\* No assembleFile call so far.
AsmIdle == [pc |-> "idle"]

\* next: the position of the sender's frame a faithful receiver captures
\* next; inOrder: the receiver was fresh when the file was loaded and every
\* capture since read the frame at `next` as it was drawn; metaFromData:
\* DeserializeMetadata was given the payload of a data chunk; metaRecorded:
\* the payload of a metadata frame was recorded in the table; assembled:
\* the last assembleFile began after every frame of the loaded file had been
\* captured so.
WatchStart ==
    [next |-> 0, inOrder |-> TRUE, metaFromData |-> FALSE, metaRecorded |-> FALSE,
     assembled |-> FALSE]

\* Both programs after construction, but for the receiver's table and metadata.
Constructed ==
    /\ filename = 0
    /\ metadata = ZeroMetadata
    /\ chunks = <<>>
    /\ currentChunk = 0
    /\ totalChunks = 0
    /\ running = FALSE
    /\ timers = 0
    /\ image = Placeholder
    /\ status = "No file selected"
    /\ startBtn = FALSE
    /\ stopBtn = FALSE
    /\ redundancySelect = 1
    /\ entered = 0
    /\ advancing = <<>>
    /\ panicked = FALSE
    /\ shown = <<>>
    /\ transfer = "none"
    /\ cancelled = "no"
    /\ capturing = FALSE
    /\ loops = [l \in 1..MaxLoops |-> NoLoop]
    /\ mu = 0
    /\ progress = [received |-> 0, total |-> U32(0)]
    /\ asm = AsmIdle
    /\ crashed = FALSE
    /\ watch = WatchStart
    /\ rt = [pc |-> "idle"]

Init ==
    /\ Constructed
    /\ receivedChunks = <<>>
    /\ rmetadata = ZeroMetadata

\* Nothing captured yet and no capture under way.
ReceiverFresh ==
    /\ receivedChunks = <<>>
    /\ rmetadata = ZeroMetadata
    /\ \A l \in 1..MaxLoops : loops[l].pc \in {"none", "sleep"}

(* ------------------------------ sender -------------------------------- *)

SelectRedundancy(value) ==
    /\ redundancySelect' = value
    /\ UNCHANGED <<filename, metadata, chunks, currentChunk, totalChunks, running,
                   timers, image, status, startBtn, stopBtn, shown, transfer>>
    /\ UNCHANGED <<cancelled, goroutineVars, receiverVars, watch, codecVars>>

\* selectFile and loadFile, for a file that opens and reads without error.
LoadFile(f) ==
    LET size == Len(Files[f])
        md == [Filename |-> <<f>>, FileSize |-> size, ChunkSize |-> ChunkSize,
               TotalChunks |-> (size + ChunkSize - 1) \div ChunkSize,
               Checksum |-> ZeroChecksum, Timestamp |-> Now, Redundancy |-> 1]
    IN  /\ filename' = f
        /\ metadata' = md
        /\ chunks' = CreateChunks(FileReads(Files[f]), md, 1)
        /\ currentChunk' = 0
        /\ totalChunks' = md.TotalChunks
        /\ image' = Placeholder
        /\ status' = "Selected"
        /\ startBtn' = TRUE
        /\ shown' = <<>>
        /\ transfer' = IF running \/ timers > 0 THEN "dirty" ELSE "none"
        /\ watch' = [watch EXCEPT !.next = 0, !.inOrder = ReceiverFresh,
                                   !.assembled = FALSE]
        /\ UNCHANGED <<running, timers, stopBtn, redundancySelect, cancelled,
                       goroutineVars>>
        /\ UNCHANGED <<receiverVars, codecVars>>

\* The frame displayCurrentChunk serializes at position cur.
CurrentFrame(cur) ==
    IF cur = 0
    THEN SerializeChunk([Index |-> U32(0),
                         Total |-> U32Add(U32(totalChunks), 1),
                         Data |-> SerializeMetadata(metadata),
                         Checksum |-> ZeroChecksum,
                         Timestamp |-> metadata.Timestamp])
    ELSE SerializeChunk(chunks[cur][1])

\* displayCurrentChunk entered with s.running = run, `sleeping` other
\* goroutines asleep, the buttons enabled as in btns = <<start, stop>> and
\* the status line showing text.
DisplayCurrentChunk(run, sleeping, btns, text) ==
    IF ~run \/ currentChunk > totalChunks
    THEN /\ running' = FALSE
         /\ stopBtn' = FALSE
         /\ startBtn' = TRUE
         /\ status' = IF currentChunk > totalChunks THEN "Transfer complete!" ELSE text
         /\ timers' = sleeping
         /\ UNCHANGED <<currentChunk, image, shown>>
    ELSE LET serialized == CurrentFrame(currentChunk)
         IN  /\ image' = [kind |-> "grid", data |-> serialized,
                          side |-> OptimalGridSize(Len(serialized)),
                          pos |-> currentChunk]
             /\ shown' = Append(shown, serialized)
             /\ currentChunk' = currentChunk + 1
             /\ IF currentChunk + 1 > totalChunks + 1
                THEN /\ running' = FALSE
                     /\ stopBtn' = FALSE
                     /\ startBtn' = TRUE
                     /\ status' = "Transfer complete!"
                     /\ timers' = sleeping
                ELSE /\ running' = run
                     /\ stopBtn' = btns[2]
                     /\ startBtn' = btns[1]
                     /\ status' = text
                     /\ timers' = sleeping + 1

StartTransfer ==
    /\ startBtn
    /\ timers < MaxTimers
    /\ transfer' = IF transfer = "none" /\ filename # 0 THEN "clean"
                   ELSE IF filename = 0 THEN transfer ELSE "dirty"
    /\ cancelled' = "no"
    /\ IF Len(chunks) = 0
       THEN UNCHANGED <<running, status, startBtn, stopBtn, timers, currentChunk,
                        image, shown>>
       ELSE DisplayCurrentChunk(TRUE, timers, <<FALSE, TRUE>>, "Transfer running...")
    /\ UNCHANGED <<filename, metadata, chunks, totalChunks, redundancySelect>>
    /\ UNCHANGED <<goroutineVars, receiverVars, watch, codecVars>>

StopTransfer ==
    /\ stopBtn
    /\ running' = FALSE
    /\ stopBtn' = FALSE
    /\ startBtn' = TRUE
    /\ status' = "Transfer stopped"
    /\ transfer' = IF transfer = "clean" THEN "dirty" ELSE transfer
    /\ cancelled' = "stopped"
    /\ UNCHANGED <<filename, metadata, chunks, currentChunk, totalChunks, timers,
                   image, redundancySelect, shown>>
    /\ UNCHANGED <<goroutineVars, receiverVars, watch, codecVars>>

\* A goroutine returns from time.Sleep: if s.running { s.displayCurrentChunk() }
TimerWake ==
    /\ timers > 0
    /\ cancelled' = IF ~running /\ cancelled = "stopped" THEN "woken" ELSE cancelled
    /\ IF running
       THEN DisplayCurrentChunk(TRUE, timers - 1, <<startBtn, stopBtn>>, status)
       ELSE /\ timers' = timers - 1
            /\ UNCHANGED <<running, status, startBtn, stopBtn, currentChunk, image, shown>>
    /\ UNCHANGED <<filename, metadata, chunks, totalChunks, redundancySelect, transfer>>
    /\ UNCHANGED <<goroutineVars, receiverVars, watch, codecVars>>

\* A goroutine returns from time.Sleep, finds s.running set or not, and
\* when it is set runs displayCurrentChunk up to its first test: the
\* transfer is complete, or the goroutine goes on to build the frame.
WakeUp ==
    /\ timers > 0
    /\ timers' = timers - 1
    /\ cancelled' = IF ~running /\ cancelled = "stopped" THEN "woken" ELSE cancelled
    /\ IF ~running
       THEN UNCHANGED <<running, status, startBtn, stopBtn, entered>>
       ELSE IF currentChunk > totalChunks
       THEN /\ running' = FALSE
            /\ stopBtn' = FALSE
            /\ startBtn' = TRUE
            /\ status' = "Transfer complete!"
            /\ entered' = entered
       ELSE /\ entered' = entered + 1
            /\ UNCHANGED <<running, status, startBtn, stopBtn>>
    /\ UNCHANGED <<filename, metadata, chunks, currentChunk, totalChunks, image,
                   redundancySelect, shown, transfer, advancing, panicked>>
    /\ UNCHANGED <<receiverVars, watch, codecVars>>

\* The goroutine past the first test goes on: it reads s.currentChunk and,
\* unless that is 0, s.chunks[s.currentChunk-1], a run-time panic when the
\* index is out of range; it shows the frame and, in s.currentChunk++, reads
\* s.currentChunk.
ShowFrame ==
    /\ entered > 0
    /\ IF currentChunk # 0 /\ currentChunk - 1 >= Len(chunks)
       THEN /\ panicked' = TRUE
            /\ UNCHANGED <<image, shown, entered, advancing>>
       ELSE LET serialized == CurrentFrame(currentChunk)
            IN  /\ image' = [kind |-> "grid", data |-> serialized,
                             side |-> OptimalGridSize(Len(serialized)),
                             pos |-> currentChunk]
                /\ shown' = Append(shown, serialized)
                /\ entered' = entered - 1
                /\ advancing' = Append(advancing, currentChunk)
                /\ panicked' = panicked
    /\ UNCHANGED <<filename, metadata, chunks, currentChunk, totalChunks, running, timers,
                   status, startBtn, stopBtn, redundancySelect, transfer, cancelled>>
    /\ UNCHANGED <<receiverVars, watch, codecVars>>

\* The g-th of these goroutines stores the value it read, plus one, in
\* s.currentChunk, and ends the transfer or starts the next sleeping
\* goroutine.
Advance(g) ==
    /\ g \in 1..Len(advancing)
    /\ currentChunk' = advancing[g] + 1
    /\ advancing' = SubSeq(advancing, 1, g - 1) \o SubSeq(advancing, g + 1, Len(advancing))
    /\ IF advancing[g] + 1 > totalChunks + 1
       THEN /\ running' = FALSE
            /\ stopBtn' = FALSE
            /\ startBtn' = TRUE
            /\ status' = "Transfer complete!"
            /\ timers' = timers
       ELSE /\ timers' = timers + 1
            /\ UNCHANGED <<running, status, startBtn, stopBtn>>
    /\ UNCHANGED <<filename, metadata, chunks, totalChunks, image, redundancySelect, shown,
                   transfer, cancelled, entered, panicked>>
    /\ UNCHANGED <<receiverVars, watch, codecVars>>

\* The handlers run one at a time on the UI goroutine; the timer goroutines
\* run beside them, and a panic ends the program.
GoroutineNext ==
    \/ ~panicked /\ \E f \in 1..Len(Files) : LoadFile(f)
    \/ ~panicked /\ timers + entered + Len(advancing) < MaxTimers /\ StartTransfer
    \/ ~panicked /\ StopTransfer
    \/ ~panicked /\ WakeUp
    \/ ~panicked /\ ShowFrame
    \/ ~panicked /\ \E g \in 1..Len(advancing) : Advance(g)

GoroutineSpec == Init /\ [][GoroutineNext]_vars

SenderNext ==
    \/ \E value \in RedundancyLevels : SelectRedundancy(value)
    \/ \E f \in 1..Len(Files) : LoadFile(f)
    \/ StartTransfer
    \/ StopTransfer
    \/ TimerWake

(* ----------------------------- receiver ------------------------------- *)

\* r.receivedChunks[index], nil when the index is absent
Copies(table, index) == IF index \in DOMAIN table THEN table[index] ELSE <<>>

\* The new copy takes the place of the copies recorded before.
RecordLatest(table, c) ==
    [index \in DOMAIN table \cup {c.Index} |->
        IF index = c.Index THEN <<c>> ELSE table[index]]

\* r.receivedChunks[c.Index] = append(r.receivedChunks[c.Index], c)
Record(table, c) ==
    [index \in DOMAIN table \cup {c.Index} |->
        IF index = c.Index THEN Append(Copies(table, index), c) ELSE table[index]]

\* The copies the table holds, over all indices.
TotalCopies(table) ==
    Cardinality(UNION {{<<index, k>> : k \in 1..Len(table[index])} : index \in DOMAIN table})

\* What a capture of the sender's window yields after Decode and
\* BlocksToData: the frame as drawn, the frame with one byte read wrongly,
\* or no frame (CaptureRegion fails, or no grid is found or decoded).
ScreenInputs ==
    IF image.kind # "grid" THEN {}
    ELSE LET tag == IF image.pos = 0 THEN "meta" ELSE "data"
         IN  {[kind |-> "data", data |-> GridBytes(image.data), pos |-> image.pos,
               tag |-> tag],
              [kind |-> "data", pos |-> -1, tag |-> tag,
               data |-> [GridBytes(image.data) EXCEPT ![13] = (@ + 1) % 256]],
              [kind |-> "fail", pos |-> -1, tag |-> "none"]}

\* The metadata and the chunks a sender builds for the document.
SampleMetadata ==
    [Filename |-> <<100>>, FileSize |-> DocLen, ChunkSize |-> ChunkSize,
     TotalChunks |-> (DocLen + ChunkSize - 1) \div ChunkSize,
     Checksum |-> ZeroChecksum, Timestamp |-> Now, Redundancy |-> 1]

SampleChunks == CreateChunks(FileReads(Doc), SampleMetadata, 1)

\* A metadata frame that carries the digest of its payload.
SignedMetadataChunk ==
    [Index |-> U32(0), Total |-> U32(SampleMetadata.TotalChunks + 1),
     Data |-> SerializeMetadata(SampleMetadata),
     Checksum |-> Digest(SerializeMetadata(SampleMetadata)),
     Timestamp |-> Now]

\* Whatever else the captured region may show: frames of another sender
\* (a signed metadata frame, the document's chunks and a redundant copy, a
\* different chunk at index 1, a chunk past the end), a chunk whose payload
\* was altered, and a buffer too short to be a frame.
OtherInputs ==
    LET frame(c, tag) == [kind |-> "data", data |-> GridBytes(SerializeChunk(c)),
                          pos |-> -1, tag |-> tag]
        last == SampleChunks[Len(SampleChunks)][1]
    IN  {frame(SignedMetadataChunk, "meta")}
        \cup {frame(SampleChunks[g][1], "data") : g \in 1..Len(SampleChunks)}
        \cup {frame(SampleChunks[Len(SampleChunks)][2], "data"),
              frame([last EXCEPT !.Data = <<1, 2, 3>>, !.Checksum = Digest(<<1, 2, 3>>)],
                    "data"),
              frame([last EXCEPT !.Index = U32(Len(SampleChunks)), !.Data = <<9>>,
                                 !.Checksum = Digest(<<9>>)], "data"),
              frame([last EXCEPT !.Data = [@ EXCEPT ![1] = (@ + 1) % 256]], "data"),
              [kind |-> "data", data |-> <<1, 2, 3>>, pos |-> -1, tag |-> "none"]}

\* captureFrame of loop l up to r.mu.Lock(), on the capture `input`.  A frame
\* that fails to deserialize or to verify ends the iteration; a verified one
\* takes the mutex (the step waits for it).
CaptureFrame(l, input) ==
    /\ ~crashed
    /\ capturing
    /\ loops[l].pc = "sleep"
    /\ LET res == IF input.kind = "fail" THEN [err |-> "capture"]
                  ELSE DeserializeChunk(input.data)
           accepted == IF res.err = "none" THEN VerifyChunk(res.chunk) ELSE FALSE
       IN  /\ accepted => mu = 0 /\ TotalCopies(receivedChunks) < MaxRecorded
           /\ crashed' = (res.err = "panic")
           /\ loops' = IF accepted
                       THEN [loops EXCEPT ![l] = [pc |-> "locked", chunkData |-> res.chunk,
                                                  tag |-> input.tag]]
                       ELSE loops
           /\ mu' = IF accepted THEN l ELSE mu
           /\ watch' = IF input.pos = watch.next
                       THEN [watch EXCEPT !.next = @ + 1]
                       ELSE [watch EXCEPT !.inOrder = FALSE]
    /\ UNCHANGED <<receivedChunks, rmetadata, capturing, progress, asm>>
    /\ UNCHANGED <<senderVars, codecVars>>

\* The loop is at `for r.running`, finds it set and captures the sender's window.
CaptureScreen(l, input) == CaptureFrame(l, input)

\* The loop is at `for r.running`, finds it set and captures a region that
\* shows something else.
CaptureAny(l, input) == CaptureFrame(l, input)

\* The critical section of captureFrame and r.mu.Unlock().
RecordChunk(l) ==
    /\ ~crashed
    /\ loops[l].pc = "locked"
    /\ LET c == loops[l].chunkData
           parse == c.Index = U32(0) /\ rmetadata.TotalChunks = 0
           md == DeserializeMetadata(c.Data)
       IN  /\ rmetadata' = IF parse /\ md.err = "none" THEN md.metadata ELSE rmetadata
           /\ receivedChunks' = Record(receivedChunks, c)
           /\ watch' = [watch EXCEPT
                            !.metaFromData = @ \/ (parse /\ loops[l].tag = "data"),
                            !.metaRecorded = @ \/ loops[l].tag = "meta"]
    /\ mu' = 0
    /\ loops' = [loops EXCEPT ![l].pc = "status"]
    /\ UNCHANGED <<capturing, progress, asm, crashed>>
    /\ UNCHANGED <<senderVars, codecVars>>

\* r.updateStatus(chunkData.Total, uint32(len(r.receivedChunks))), then
\* time.Sleep(r.captureRate).
UpdateStatus(l) ==
    /\ ~crashed
    /\ loops[l].pc = "status"
    /\ progress' = [received |-> Cardinality(DOMAIN receivedChunks),
                    total |-> loops[l].chunkData.Total]
    /\ loops' = [loops EXCEPT ![l] = [pc |-> "sleep"]]
    /\ UNCHANGED <<receivedChunks, rmetadata, capturing, mu, asm, crashed, watch>>
    /\ UNCHANGED <<senderVars, codecVars>>

\* The loop is at `for r.running` and finds it cleared.
LoopExit(l) ==
    /\ ~crashed
    /\ loops[l].pc = "sleep"
    /\ ~capturing
    /\ loops' = [loops EXCEPT ![l] = NoLoop]
    /\ UNCHANGED <<receivedChunks, rmetadata, capturing, mu, progress, asm, crashed, watch>>
    /\ UNCHANGED <<senderVars, codecVars>>

StartCapture ==
    /\ ~crashed
    /\ IF capturing
       THEN UNCHANGED <<capturing, loops>>
       ELSE /\ \E l \in 1..MaxLoops : loops[l].pc = "none"
            /\ capturing' = TRUE
            /\ LET l == CHOOSE k \in 1..MaxLoops :
                            /\ loops[k].pc = "none"
                            /\ \A j \in 1..(k - 1) : loops[j].pc # "none"
               IN  loops' = [loops EXCEPT ![l] = [pc |-> "sleep"]]
    /\ UNCHANGED <<receivedChunks, rmetadata, mu, progress, asm, crashed, watch>>
    /\ UNCHANGED <<senderVars, codecVars>>

StopCapture ==
    /\ ~crashed
    /\ capturing' = FALSE
    /\ UNCHANGED <<receivedChunks, rmetadata, loops, mu, progress, asm, crashed, watch>>
    /\ UNCHANGED <<senderVars, codecVars>>

(* ---------------------------- assembleFile ---------------------------- *)

\* A first loop that starts at index 1.
InitialMissingFromOne(total) == 1..(total - 1)

\* missingChunks after the first loop of assembleFile
InitialMissing(total) == 0..(total - 1)

\* data := chunks[0].Data; the first copy that verifies replaces it
SelectData(copies) ==
    IF \E k \in 1..Len(copies) : VerifyChunk(copies[k])
    THEN copies[CHOOSE k \in 1..Len(copies) :
                    /\ VerifyChunk(copies[k])
                    /\ \A j \in 1..(k - 1) : ~VerifyChunk(copies[j])].Data
    ELSE copies[1].Data

\* The number of data chunks of the loaded file.
FileChunkCount == (Len(Files[filename]) + ChunkSize - 1) \div ChunkSize

\* saveFile hands a writer to assembleFile, which takes the mutex and builds
\* missingChunks.  table and total keep what the call saw, for the properties.
SaveFile ==
    /\ ~crashed
    /\ asm.pc \in {"idle", "done"}
    /\ mu = 0
    /\ mu' = -1
    /\ asm' = [pc |-> "loop", i |-> 0, missing |-> InitialMissing(rmetadata.TotalChunks),
               parts |-> <<>>, err |-> FALSE, report |-> 0,
               table |-> receivedChunks, total |-> rmetadata.TotalChunks]
    /\ watch' = [watch EXCEPT !.assembled = /\ filename # 0
                                            /\ watch.inOrder
                                            /\ watch.next = FileChunkCount + 1]
    /\ UNCHANGED <<receivedChunks, rmetadata, capturing, loops, progress, crashed>>
    /\ UNCHANGED <<senderVars, codecVars>>

\* One iteration of the second loop: index asm.i; writeOk says whether
\* writer.Write succeeds.
AssembleStep(writeOk) ==
    /\ asm.pc = "loop"
    /\ asm.i < rmetadata.TotalChunks
    /\ LET index == U32(asm.i)
           copies == Copies(receivedChunks, index)
       IN  IF index \notin DOMAIN receivedChunks
           THEN /\ asm' = [asm EXCEPT !.i = @ + 1]
                /\ mu' = mu
           ELSE IF Len(copies) = 0
           THEN /\ asm' = [asm EXCEPT !.i = @ + 1, !.missing = @ \ {asm.i}]
                /\ mu' = mu
           ELSE IF writeOk
           THEN /\ asm' = [asm EXCEPT !.i = @ + 1, !.missing = @ \ {asm.i},
                                      !.parts = Append(@, [index |-> asm.i,
                                                           data |-> SelectData(copies)])]
                /\ mu' = mu
           ELSE /\ asm' = [asm EXCEPT !.pc = "done", !.err = TRUE,
                                      !.missing = @ \ {asm.i}]
                /\ mu' = 0
    /\ UNCHANGED <<receivedChunks, rmetadata, capturing, loops, progress, crashed, watch>>
    /\ UNCHANGED <<senderVars, codecVars>>

\* The loop is over: the missing count is reported and the mutex released.
AssembleFinish ==
    /\ asm.pc = "loop"
    /\ asm.i >= rmetadata.TotalChunks
    /\ asm' = [asm EXCEPT !.pc = "done", !.report = Cardinality(asm.missing)]
    /\ mu' = 0
    /\ UNCHANGED <<receivedChunks, rmetadata, capturing, loops, progress, crashed, watch>>
    /\ UNCHANGED <<senderVars, codecVars>>

\* The bytes the writer holds.
RECURSIVE Concat(_, _)
Concat(parts, k) == IF k > Len(parts) THEN <<>> ELSE parts[k].data \o Concat(parts, k + 1)

Written == IF asm.pc = "idle" THEN <<>> ELSE Concat(asm.parts, 1)

\* Tables to assemble from: any subset of the indices 0..MaxIndex present,
\* each with one to MaxCopies copies, every copy either as it was sent
\* (payload <<index, k>> for copy k) or with its payload altered afterwards.
TableCopy(index, k, sound) ==
    [Index |-> U32(index), Total |-> U32(MaxIndex + 1),
     Data |-> IF sound THEN <<index, k>> ELSE <<index, 100 + k>>,
     Checksum |-> Digest(<<index, k>>), Timestamp |-> Now]

CopyShapes == UNION {[1..n -> BOOLEAN] : n \in 1..MaxCopies}

\* The table whose present indices are DOMAIN shape, copy k of index i sound
\* or not as shape[i][k] says.
TableOf(shape) ==
    [index \in {U32(i) : i \in DOMAIN shape} |->
        [k \in DOMAIN shape[index[2]] |-> TableCopy(index[2], k, shape[index[2]][k])]]

\* A receiver about to assemble: some table, and metadata announcing up to
\* MaxIndex chunks.
AssemblyInit ==
    /\ Constructed
    /\ \E present \in SUBSET (0..MaxIndex) : \E shape \in [present -> CopyShapes] :
           receivedChunks = TableOf(shape)
    /\ rmetadata \in {[SampleMetadata EXCEPT !.TotalChunks = total] : total \in 0..MaxIndex}

AssemblyNext ==
    \/ SaveFile
    \/ \E writeOk \in BOOLEAN : AssembleStep(writeOk)
    \/ AssembleFinish

\* assembleFile on chosen tables.
AssemblySpec == AssemblyInit /\ [][AssemblyNext]_vars

(* ---------------------------- chunk codec ----------------------------- *)

AllOnes16 == Half - 1

\* Chunks to serialize: indices, totals and timestamps at both ends of their
\* ranges, payloads from empty to a full chunk, checksums right and wrong.
CodecChunks ==
    [Index : {U32(0), U32(1), <<1, 0>>, <<AllOnes16, AllOnes16>>},
     Total : {U32(0), U32(3), <<AllOnes16, AllOnes16>>},
     Data : {<<>>, <<0>>, <<255>>, <<1, 2, 3>>, SubSeq(Doc, 1, ChunkSize)},
     Checksum : {ZeroChecksum, Digest(<<1, 2, 3>>), [i \in 1..ChecksumWidth |-> 255]},
     Timestamp : {ZeroStamp, Now, <<AllOnes16, AllOnes16, AllOnes16, AllOnes16>>}]

\* Payload lengths near the top of the 32-bit range, as Go ints: 2^31, and
\* 2^32 - 1 - k for k up to LongSpan.
LongSpan == 60

LongLengths == {<<Half \div 2, 0>>} \cup {<<AllOnes16, AllOnes16 - k>> : k \in 0..LongSpan}

\* DeserializeChunk(SerializeChunk(c))
RoundTrip(c) ==
    /\ rt.pc = "idle"
    /\ rt' = [pc |-> "done", kind |-> "chunk", chunk |-> c,
              res |-> DeserializeChunk(SerializeChunk(c))]
    /\ UNCHANGED <<senderVars, receiverVars, watch>>

\* DeserializeChunk(SerializeChunk(c)) for a chunk whose payload has n bytes,
\* too many to write out: the header SerializeChunk builds from n, the
\* length of its result, and the path DeserializeChunk takes on them.
RoundTripLong(n) ==
    /\ rt.pc = "idle"
    /\ rt' = [pc |-> "done", kind |-> "long", len |-> n,
              res |-> [err |-> LET path == DeserializePath(SerializedLen(n),
                                                           ReadBE32(LenBytes(n), 0))
                               IN  IF path = "ok" THEN "none" ELSE path]]
    /\ UNCHANGED <<senderVars, receiverVars, watch>>

CodecReset ==
    /\ rt.pc = "done"
    /\ rt' = [pc |-> "idle"]
    /\ UNCHANGED <<senderVars, receiverVars, watch>>

CodecNext ==
    \/ \E c \in CodecChunks : RoundTrip(c)
    \/ \E n \in LongLengths : RoundTripLong(n)
    \/ CodecReset

\* The chunk codec on chosen inputs.
CodecSpec == Init /\ [][CodecNext]_vars

(* ------------------------- frames that are short --------------------- *)

\* Buffers to deserialize: n bytes long, declaring a payload of `declared`
\* bytes in data[8:12].
FrameBuffer(n, declared) ==
    SubSeq(Zeros(8) \o BE32(declared) \o [i \in 1..MaxFrame |-> (i + 2) % 256], 1, n)

\* Declared payload lengths from 0 up, and from 2^32 - 1 down.
DeclaredLengths ==
    {U32(k) : k \in 0..MaxDeclared} \cup {<<AllOnes16, AllOnes16 - k>> : k \in 0..LongSpan}

\* DeserializeChunk(data)
Deserialize(n, declared) ==
    /\ rt.pc = "idle"
    /\ rt' = [pc |-> "done", kind |-> "frame", data |-> FrameBuffer(n, declared),
              res |-> DeserializeChunk(FrameBuffer(n, declared))]
    /\ UNCHANGED <<senderVars, receiverVars, watch>>

FrameNext ==
    \/ \E n \in 0..MaxFrame : \E declared \in DeclaredLengths : Deserialize(n, declared)
    \/ CodecReset

\* DeserializeChunk on chosen buffers.
FrameSpec == Init /\ [][FrameNext]_vars

(* ---------------------------- VerifyChunk ----------------------------- *)

\* Payloads to verify: from empty to a full chunk.
Payloads ==
    {<<>>, <<0>>, <<255>>, <<0, 0>>, <<1, 2, 3>>} \cup {SubSeq(Doc, 1, n) : n \in 1..MaxPayload}
        \cup {SubSeq(Doc, 1, ChunkSize)}

\* The ways one byte can differ from what it was.
ByteChanges == {1, 2, 127, 128, 255}

\* VerifyChunk on the chunk {data: d, checksum: digest(d)}, and on that chunk
\* after byte pos of its payload changed by delta (pos = 0: no byte to change).
Verify(d, pos, delta) ==
    /\ rt.pc = "idle"
    /\ LET c == [Index |-> U32(0), Total |-> U32(1), Data |-> d, Checksum |-> Digest(d),
                 Timestamp |-> Now]
           altered == [c EXCEPT !.Data = [d EXCEPT ![pos] = (@ + delta) % 256]]
       IN  rt' = [pc |-> "done", kind |-> "verify", data |-> d, pos |-> pos, delta |-> delta,
                  sound |-> VerifyChunk(c),
                  altered |-> IF pos = 0 THEN FALSE ELSE VerifyChunk(altered)]
    /\ UNCHANGED <<senderVars, receiverVars, watch>>

VerifyNext ==
    \/ \E d \in Payloads : \E pos \in 0..Len(d) : \E delta \in ByteChanges : Verify(d, pos, delta)
    \/ CodecReset

\* VerifyChunk on chosen chunks.
VerifySpec == Init /\ [][VerifyNext]_vars

(* -------------------------- CreateChunks alone ------------------------ *)

\* A byte stream of the given length.
Stream(length) == [i \in 1..length |-> (11 * i + 3) % 256]

\* What successive Read calls return for a reader that holds bytes and
\* hands out at most `piece` bytes per call (piece <= ChunkSize, the length
\* of the buffer it is given): a file hands out full buffers, a pipe or a
\* socket what has arrived.
RECURSIVE ReaderReads(_, _)
ReaderReads(bytes, piece) ==
    IF Len(bytes) = 0 THEN <<>>
    ELSE IF Len(bytes) <= piece THEN <<bytes>>
    ELSE <<SubSeq(bytes, 1, piece)>> \o ReaderReads(SubSeq(bytes, piece + 1, Len(bytes)), piece)

\* Stream lengths: all up to MaxStream, and the 1050 bytes of the example.
StreamLengths == (0..MaxStream) \cup {1050}

PieceSizes == {ChunkSize, 64, 50, 30}

\* CreateChunks(reader, metadata, 1)
Chunking(length, piece) ==
    /\ rt.pc = "idle"
    /\ rt' = [pc |-> "done", kind |-> "chunks", length |-> length, piece |-> piece,
              groups |-> CreateChunks(ReaderReads(Stream(length), piece),
                                      [SampleMetadata EXCEPT
                                          !.FileSize = length,
                                          !.TotalChunks = (length + ChunkSize - 1) \div ChunkSize],
                                      1)]
    /\ UNCHANGED <<senderVars, receiverVars, watch>>

ChunkingNext ==
    \/ \E length \in StreamLengths : \E piece \in PieceSizes : Chunking(length, piece)
    \/ CodecReset

\* CreateChunks on chosen readers.
ChunkingSpec == Init /\ [][ChunkingNext]_vars

(* ----------------------------- colour grid --------------------------- *)

\* redBits = greenBits = blueBits for an error level
Bits(level) == CASE level = "Low" -> 8 [] level = "Medium" -> 6 [] level = "High" -> 4

\* 1 << n
Pow2(n) == CASE n = 0 -> 1 [] n = 2 -> 4 [] n = 4 -> 16 [] n = 6 -> 64 [] n = 8 -> 256

\* Six bits per channel whatever the level.
EncodeChannelSixBits(v, bits) == ((v \div 4) * 255) \div 63

\* rShifted := rVal >> (8 - redBits); rCompressed := (rShifted * 255) / redMask
EncodeChannel(v, bits) == ((v \div Pow2(8 - bits)) * 255) \div (Pow2(bits) - 1)

\* rShifted := (rVal * redMask) / 255; rExpanded := rShifted << (8 - redBits),
\* 255 when rShifted == redMask
DecodeChannel(c, bits) ==
    LET shifted == (c * (Pow2(bits) - 1)) \div 255
    IN  IF shifted = Pow2(bits) - 1 THEN 255 ELSE shifted * Pow2(8 - bits)

\* data[i] for a Go index i, 0 past the end (gVal, bVal start at 0)
ByteAt(data, i) == IF i < Len(data) THEN data[i + 1] ELSE 0

\* Encoder.Encode: the blocks in row order, block k (from 0) made of
\* data[3k], data[3k+1], data[3k+2], a black block once the data is used up.
Encode(data, cfg) ==
    <<>> \o [n \in 1..(cfg.GridWidth * cfg.GridHeight) |->
        LET k == n - 1
        IN  IF 3 * k >= Len(data) THEN <<0, 0, 0>>
            ELSE [ch \in 1..3 |-> EncodeChannel(ByteAt(data, 3 * k + ch - 1), Bits(cfg.ErrorLevel))]]

\* blockPixelSize := width / (GridWidth + 2*BorderSize)
BlockPixelSize(cfg, width) == width \div (cfg.GridWidth + 2 * cfg.BorderSize)

\* Encoder.CreateImage: the image, given by its size and by what was drawn.
CreateImage(blocks, cfg, width, height) ==
    [kind |-> "drawn", width |-> width, height |-> height, blocks |-> blocks, cfg |-> cfg]

White == <<255, 255, 255>>

\* What a capture may show besides a drawn grid.  "dots": white, with the
\* pixels of `dots` in `colour`.  "checker": white, with a board of squares
\* of `cell` pixels, `colour` and white in turn, over the rectangle from
\* (x0, y0) to (x1, y1).
DotsImage(width, height, dots, colour) ==
    [kind |-> "dots", width |-> width, height |-> height, dots |-> dots, colour |-> colour]

CheckerImage(width, height, x0, y0, x1, y1, cell, colour) ==
    [kind |-> "checker", width |-> width, height |-> height, x0 |-> x0, y0 |-> y0,
     x1 |-> x1, y1 |-> y1, cell |-> cell, colour |-> colour]

\* The pixel of an image that was not drawn by CreateImage.
ShownAt(img, px, py) ==
    IF img.kind = "dots"
    THEN IF <<px, py>> \in img.dots THEN img.colour ELSE White
    ELSE IF /\ px >= img.x0 /\ px < img.x1 /\ py >= img.y0 /\ py < img.y1
            /\ (((px - img.x0) \div img.cell) + ((py - img.y0) \div img.cell)) % 2 = 0
         THEN img.colour ELSE White

\* img.At(px, py) as 8-bit channels (r >> 8 of RGBA()): nothing outside the
\* bounds; white in the four border bands, drawn last; the block's colour in
\* its cell; nothing where no rectangle was drawn.
PixelAt(img, px, py) ==
    LET p == BlockPixelSize(img.cfg, img.width)
        b == img.cfg.BorderSize * p
        x == (px \div p) - img.cfg.BorderSize
        y == (py \div p) - img.cfg.BorderSize
    IN  IF px < 0 \/ px >= img.width \/ py < 0 \/ py >= img.height THEN <<0, 0, 0>>
        ELSE IF img.kind # "drawn" THEN ShownAt(img, px, py)
        ELSE IF px < b \/ py < b \/ px >= img.width - b \/ py >= img.height - b
        THEN <<255, 255, 255>>
        ELSE IF p = 0 THEN <<0, 0, 0>>
        ELSE IF x >= 0 /\ x < img.cfg.GridWidth /\ y >= 0 /\ y < img.cfg.GridHeight
        THEN img.blocks[y * img.cfg.GridWidth + x + 1]
        ELSE <<0, 0, 0>>

\* Decoder.Decode: the centre pixel of every cell, each channel rescaled.
Decode(img, cfg) ==
    LET p == BlockPixelSize(cfg, img.width)
    IN  <<>> \o [n \in 1..(cfg.GridWidth * cfg.GridHeight) |->
            LET x == (n - 1) % cfg.GridWidth
                y == (n - 1) \div cfg.GridWidth
                pixel == PixelAt(img, (x + cfg.BorderSize) * p + p \div 2,
                                      (y + cfg.BorderSize) * p + p \div 2)
            IN  [ch \in 1..3 |-> DecodeChannel(pixel[ch], Bits(cfg.ErrorLevel))]]

\* Decoder.BlocksToData
BlocksToData(blocks) == <<>> \o [i \in 1..(3 * Len(blocks)) |-> blocks[(i + 2) \div 3][((i - 1) % 3) + 1]]

Bytes == 0..255

\* Data for `cells` cells in which, over v in 0..255, every channel takes
\* every value.
GridData(v, cells) ==
    <<>> \o [i \in 1..(3 * cells) |->
        LET w == (v + (i - 1) \div 3) % 256
        IN  CASE i % 3 = 1 -> w [] i % 3 = 2 -> 255 - w [] i % 3 = 0 -> (7 * w) % 256]

BorderSizes == {0, 1}

\* NewEncoder(config) and NewDecoder(config) with one configuration, for an
\* image of width x height pixels.
NewCodecs(cfg, width, height) ==
    /\ rt.pc = "idle"
    /\ rt' = [pc |-> "ready", kind |-> "colour", cfg |-> cfg, width |-> width,
              height |-> height]
    /\ UNCHANGED <<senderVars, receiverVars, watch>>

\* BlocksToData(Decode(CreateImage(Encode(d)))), encoder and decoder sharing
\* the configuration.
ColourRoundTrip(v) ==
    /\ rt.pc = "ready"
    /\ LET d == GridData(v, rt.cfg.GridWidth * rt.cfg.GridHeight)
       IN  rt' = [rt EXCEPT !.pc = "done"] @@
                 [data |-> d,
                  out |-> BlocksToData(Decode(CreateImage(Encode(d, rt.cfg), rt.cfg,
                                                          rt.width, rt.height), rt.cfg))]
    /\ UNCHANGED <<senderVars, receiverVars, watch>>

ColourNext ==
    \/ \E gw, gh \in 1..MaxGrid : \E border \in BorderSizes :
           \E width, height \in 1..MaxImage :
               NewCodecs([GridWidth |-> gw, GridHeight |-> gh, BorderSize |-> border,
                          ErrorLevel |-> "Low"], width, height)
    \/ \E v \in Bytes : ColourRoundTrip(v)
    \/ CodecReset

\* The colour grid at level Low on chosen data, grids and image sizes.
ColourSpec == Init /\ [][ColourNext]_vars

\* s.qrEnc.CreateImage(blocks, 400, 400)
CanvasSize == 400

\* BorderSize: 1 in the qr.Config of captureFrame
CaptureBorder == 1

ErrorLevels == {"Low", "Medium", "High"}

\* The callback of errorLevelSelect on the sender's qr.Config{}, whose other
\* fields are zero.
SelectErrorLevel(value) ==
    /\ rt.pc = "idle"
    /\ rt' = [pc |-> "ready", kind |-> "level",
              qrConfig |-> [GridWidth |-> 0, GridHeight |-> 0, BorderSize |-> 0,
                            ErrorLevel |-> value]]
    /\ UNCHANGED <<senderVars, receiverVars, watch>>

\* displayCurrentChunk draws the frame `serialized` with s.qrConfig, and
\* captureFrame decodes that image, undistorted and with the grid size the
\* sender used, with the configuration it builds.
ShowAndCapture(serialized) ==
    /\ rt.pc = "ready" /\ rt.kind = "level"
    /\ LET side == OptimalGridSize(Len(serialized))
           enc == [rt.qrConfig EXCEPT !.GridWidth = side, !.GridHeight = side]
           img == CreateImage(Encode(serialized, enc), enc, CanvasSize, CanvasSize)
           dec == [GridWidth |-> side, GridHeight |-> side, BorderSize |-> CaptureBorder,
                   ErrorLevel |-> "Low"]
       IN  rt' = [pc |-> "done", kind |-> "capture", serialized |-> serialized,
                  enc |-> enc, dec |-> dec,
                  data |-> BlocksToData(Decode(img, dec))]
    /\ UNCHANGED <<senderVars, receiverVars, watch>>

\* The frame of a data chunk with the one-byte payload v.
ByteFrame(v) ==
    SerializeChunk([Index |-> U32(1), Total |-> U32(2), Data |-> <<v>>,
                    Checksum |-> Digest(<<v>>), Timestamp |-> Now])

ConfigNext ==
    \/ \E value \in ErrorLevels : SelectErrorLevel(value)
    \/ \E v \in Bytes : ShowAndCapture(ByteFrame(v))
    \/ CodecReset

\* A frame drawn by the sender and decoded by the receiver, each with its
\* own configuration.
ConfigSpec == Init /\ [][ConfigNext]_vars

\* The value the decoder recovers from the colour the encoder emits for v.
Quantise(v, level) ==
    /\ rt.pc = "idle"
    /\ rt' = [pc |-> "done", kind |-> "channel", v |-> v, level |-> level,
              back |-> DecodeChannel(EncodeChannel(v, Bits(level)), Bits(level))]
    /\ UNCHANGED <<senderVars, receiverVars, watch>>

ChannelNext ==
    \/ \E v \in Bytes : \E level \in {"Low", "Medium", "High"} : Quantise(v, level)
    \/ CodecReset

\* One channel through encoder and decoder, at every level.
ChannelSpec == Init /\ [][ChannelNext]_vars

(* ---------------------------- Reed-Solomon ---------------------------- *)

\* a ^ b on non-negative integers
RECURSIVE Xor(_, _)
Xor(a, b) ==
    IF a = 0 /\ b = 0 THEN 0
    ELSE (((a % 2) + (b % 2)) % 2) + 2 * Xor(a \div 2, b \div 2)

\* rs.alpha_to[k] and rs.index_of[i] as NewRS fills them: alpha_to[i-1] = i
\* for i in 1..nn, alpha_to[nn] left 0; index_of[i] = i-1, index_of[0] = -1.
AlphaTo(rs, k) == IF k < rs.nn THEN k + 1 ELSE 0
IndexOf(rs, i) == i - 1

\* Whether k is an index of the two tables, which have nn+1 entries.
InTable(rs, k) == k >= 0 /\ k <= rs.nn

\* modnn with padding 0: x -= nn; x = x >> mm, while x > nn
RECURSIVE modnn(_, _)
modnn(rs, x) == IF x > rs.nn THEN modnn(rs, (x - rs.nn) \div (2 ^ rs.mm)) ELSE x

\* The inner loop of generate_genpoly, from j down to 0, on the polynomial
\* g (genpoly[j] is g[j+1]); an index outside a table is a run-time panic.
RECURSIVE GenInner(_, _, _, _)
GenInner(rs, g, i, j) ==
    IF j < 0 THEN [ok |-> TRUE, g |-> g]
    ELSE LET gj == g[j + 1]
             k == IndexOf(rs, gj) + rs.fcr + ((i * rs.prim) % rs.nn)
         IN  IF ~InTable(rs, gj) \/ ~InTable(rs, k) THEN [ok |-> FALSE, g |-> g]
             ELSE GenInner(rs, [g EXCEPT ![j + 1] = modnn(rs, Xor(AlphaTo(rs, k), gj))],
                           i, j - 1)

\* The outer loop of generate_genpoly, from i up to nroots-1.
RECURSIVE GenOuter(_, _, _)
GenOuter(rs, g, i) ==
    IF i >= rs.nroots THEN [ok |-> TRUE, g |-> g]
    ELSE LET inner == GenInner(rs, [g EXCEPT ![i + 2] = 1], i, i)
         IN  IF inner.ok THEN GenOuter(rs, inner.g, i + 1) ELSE inner

\* generate_genpoly.  With nn = 0 the first (i*prim) % nn divides by zero.
generate_genpoly(rs) ==
    IF rs.nn = 0 THEN [ok |-> FALSE, g |-> <<>>]
    ELSE GenOuter(rs, <<1>> \o Zeros(rs.nroots), 0)

\* NewRS: the codec, with ok FALSE when the construction panics.
NewRS(mm, fcr, prim, nroots) ==
    LET rs == [mm |-> mm, nn |-> (2 ^ mm) - 1, fcr |-> fcr, prim |-> prim, nroots |-> nroots]
        gen == generate_genpoly(rs)
    IN  rs @@ [ok |-> gen.ok, genpoly |-> gen.g]

\* The inner loop of RS.Encode for one data byte, from i down to 0:
\* parity[i-1], or parity[0] when i = 0, becomes
\* byte(alpha_to[modnn(index_of[gen[i]] + shift)]).
RECURSIVE ParityStep(_, _, _, _)
ParityStep(rs, parity, shift, i) ==
    IF i < 0 THEN [ok |-> TRUE, parity |-> parity]
    ELSE LET gi == rs.genpoly[i + 1]
             k == modnn(rs, IndexOf(rs, gi) + shift)
         IN  IF ~InTable(rs, gi) \/ ~InTable(rs, k) THEN [ok |-> FALSE, parity |-> parity]
             ELSE ParityStep(rs, [parity EXCEPT ![IF i > 0 THEN i ELSE 1] = AlphaTo(rs, k) % 256],
                             shift, i - 1)

\* The loop of RS.Encode over the data bytes lo..hi, by halves, from the
\* parity st.parity; nothing more is done once a step has panicked.
RECURSIVE ParityRange(_, _, _, _, _)
ParityRange(rs, data, st, lo, hi) ==
    IF lo > hi \/ ~st.ok THEN st
    ELSE IF lo = hi
    THEN ParityStep(rs, st.parity, Xor(data[lo], st.parity[rs.nroots]), rs.nroots - 1)
    ELSE LET mid == (lo + hi) \div 2
         IN  ParityRange(rs, data, ParityRange(rs, data, st, lo, mid), mid + 1, hi)

\* The loop of RS.Encode over the data bytes, from the n-th.
ParityOf(rs, data, parity, n) ==
    ParityRange(rs, data, [ok |-> TRUE, parity |-> parity], n, Len(data))

\* RS.Encode: data followed by the parity, or a run-time panic.
RSEncode(rs, data) ==
    LET end == ParityOf(rs, data, <<>> \o Zeros(rs.nroots), 1)
    IN  IF end.ok THEN [err |-> "none", out |-> data \o end.parity]
        ELSE [err |-> "panic", out |-> <<>>]

\* rs := NewRS(mm, fcr, prim, nroots)
NewRSCodec(mm, fcr, prim, nroots) ==
    /\ rt.pc = "idle"
    /\ LET rs == NewRS(mm, fcr, prim, nroots)
       IN  rt' = [pc |-> IF rs.ok THEN "ready" ELSE "done", kind |-> "rs", rs |-> rs]
    /\ UNCHANGED <<senderVars, receiverVars, watch>>

\* rs.Encode(data)
EncodeBlock(data) ==
    /\ rt.pc = "ready" /\ rt.kind = "rs"
    /\ rt' = [rt EXCEPT !.pc = "done"] @@ [data |-> data, res |-> RSEncode(rt.rs, data)]
    /\ UNCHANGED <<senderVars, receiverVars, watch>>

\* Symbol sizes, first roots and root spacings of the codecs.
SymbolBits == {0, 2, 4, 8}
FirstRoots == {0, 1, 2}
PrimSteps == {1, 2}

\* The data blocks: up to MaxBlock bytes, each 0, 1 or 200.
RECURSIVE Blocks(_)
Blocks(n) ==
    IF n = 0 THEN {<<>>}
    ELSE Blocks(n - 1) \cup {Append(d, b) : d \in Blocks(n - 1), b \in {0, 1, 200}}

RSNext ==
    \/ \E mm \in SymbolBits : \E fcr \in FirstRoots : \E prim \in PrimSteps :
           \E nroots \in 1..MaxRoots : NewRSCodec(mm, fcr, prim, nroots)
    \/ \E data \in Blocks(MaxBlock) : EncodeBlock(data)
    \/ CodecReset

\* NewRS on chosen configurations and Encode on chosen blocks.
RSSpec == Init /\ [][RSNext]_vars

\* The loop of gfPow: result = modnn(result*a) on a set bit of n,
\* a = modnn(a*a), n >>= 1.
RECURSIVE PowLoop(_, _, _, _)
PowLoop(rs, result, a, n) ==
    IF n <= 0 THEN result
    ELSE PowLoop(rs, IF n % 2 = 1 THEN modnn(rs, result * a) ELSE result,
                 modnn(rs, a * a), n \div 2)

gfPow(rs, a, n) == PowLoop(rs, 1, a, n)

\* gfMul on a and b of which b is an entry of a table; MulPanics when
\* index_of[a] is read outside the table.
MulPanics(rs, a, b) == a # 0 /\ b # 0 /\ ~InTable(rs, a)
gfMul(rs, a, b) ==
    IF a = 0 \/ b = 0 THEN 0
    ELSE AlphaTo(rs, (IndexOf(rs, a) + IndexOf(rs, b)) % rs.nn)

\* The term of syndrome i for received[j] (received[j] is received[j+1]).
SyndTerm(rs, received, i, j) ==
    [a |-> received[j + 1],
     b |-> gfPow(rs, AlphaTo(rs, rs.fcr), (rs.nroots - i) * j)]

\* synd[i] over received[lo..hi], by halves.
RECURSIVE SyndRange(_, _, _, _, _)
SyndRange(rs, received, i, lo, hi) ==
    IF lo > hi THEN 0
    ELSE IF lo = hi
    THEN gfMul(rs, SyndTerm(rs, received, i, lo).a, SyndTerm(rs, received, i, lo).b)
    ELSE LET mid == (lo + hi) \div 2
         IN  Xor(SyndRange(rs, received, i, lo, mid), SyndRange(rs, received, i, mid + 1, hi))

\* synd[1..nroots]
Syndromes(rs, received) ==
    [i \in 1..rs.nroots |-> SyndRange(rs, received, i, 0, Len(received) - 1)]

\* Whether the syndrome loops stop on an index outside a table:
\* alpha_to[fcr], or index_of[received[j]] in gfMul.
SyndromesPanic(rs, received) ==
    \/ Len(received) > 0 /\ ~InTable(rs, rs.fcr)
    \/ \E j \in 0..(Len(received) - 1) :
           /\ ~InTable(rs, received[j + 1])
           /\ \E i \in 1..rs.nroots :
                  MulPanics(rs, SyndTerm(rs, received, i, j).a, SyndTerm(rs, received, i, j).b)

\* One pass of the loop at lines 142-176 for position i, on the registers
\* reg, C and B (reg[j] is reg[j+1]).
LocatorStep(rs, st, i, erasures) ==
    LET n == rs.nroots
        turned == <<st.reg[n + 1]>> \o SubSeq(st.reg, 1, n)
        reg == IF i \in erasures THEN [turned EXCEPT ![1] = Xor(@, 1)] ELSE turned
        top == reg[n + 1]
        delta == IndexOf(rs, top) - IndexOf(rs, st.B[n + 1])
        panics == \/ ~InTable(rs, top) \/ ~InTable(rs, st.B[n + 1])
                  \/ delta # 0 /\ ~InTable(rs, modnn(rs, -delta))
        scale == AlphaTo(rs, modnn(rs, -delta))
    IN  IF top = 0 THEN [st EXCEPT !.reg = reg]
        ELSE IF panics THEN [st EXCEPT !.ok = FALSE]
        ELSE [ok |-> TRUE, reg |-> reg,
              C |-> <<>> \o [k \in 1..(n + 1) |->
                        IF k = 1 THEN st.C[k]
                        ELSE Xor(st.C[k],
                                 gfMul(rs, top,
                                       AlphaTo(rs, (IndexOf(rs, top) * (n - (k - 1))) % rs.nn)))],
              B |-> IF delta = 0 THEN st.B
                    ELSE <<>> \o [k \in 1..(n + 1) |-> gfMul(rs, st.B[k], scale)]]

\* The loop at lines 142-176 over the positions i..len-1, by halves;
\* nothing more is done once a pass has panicked.
RECURSIVE LocatorLoop(_, _, _, _, _)
LocatorLoop(rs, st, i, len, erasures) ==
    IF i >= len \/ ~st.ok THEN st
    ELSE IF i = len - 1 THEN LocatorStep(rs, st, i, erasures)
    ELSE LET mid == (i + len) \div 2
         IN  LocatorLoop(rs, LocatorLoop(rs, st, i, mid, erasures), mid, len, erasures)

\* The highest i with C[i] != 0 itself.
NumRootsAsIndex(rs, C) ==
    IF \A k \in 1..(rs.nroots + 1) : C[k] = 0 THEN 0
    ELSE (CHOOSE k \in 1..(rs.nroots + 1) :
              C[k] # 0 /\ \A m \in (k + 1)..(rs.nroots + 1) : C[m] = 0) - 1

\* numRoots: nroots - i for the highest i with C[i] != 0, 0 when C is zero
NumRoots(rs, C) ==
    IF \A k \in 1..(rs.nroots + 1) : C[k] = 0 THEN 0
    ELSE rs.nroots + 1
         - (CHOOSE k \in 1..(rs.nroots + 1) :
                C[k] # 0 /\ \A m \in (k + 1)..(rs.nroots + 1) : C[m] = 0)

\* RS.Decode(received, erasures): the buffer returned and the error, or a
\* run-time panic.
RSDecode(rs, received, erasures) ==
    LET n == rs.nroots
        end == LocatorLoop(rs, [ok |-> TRUE, reg |-> <<>> \o Zeros(n + 1),
                                C |-> <<1>> \o Zeros(n), B |-> Zeros(n) \o <<1>>],
                           0, Len(received), erasures)
    IN  IF Len(received) < rs.nn + 1 - n THEN [err |-> "length", out |-> <<>>]
        ELSE IF SyndromesPanic(rs, received) THEN [err |-> "panic", out |-> <<>>]
        ELSE IF Syndromes(rs, received) = Zeros(n)
        THEN [err |-> "none", out |-> received]
        ELSE IF ~end.ok THEN [err |-> "panic", out |-> <<>>]
        ELSE IF NumRoots(rs, end.C) > n \div 2 THEN [err |-> "too many", out |-> <<>>]
        ELSE [err |-> "none", out |-> received]

\* Blocks as long as a full code block or as its data part, less the
\* parity Encode adds: all 0, all 1, and a run of different symbols.  With
\* symbols of 8 bits only the last two, as long as the data part.
FillBlocks(rs) ==
    LET lengths == {len \in {rs.nn + 1 - 2 * rs.nroots, rs.nn + 1 - rs.nroots, rs.nn + 1} :
                        len > 0 /\ (rs.mm < 8 \/ len = rs.nn + 1 - rs.nroots)}
    IN  UNION {{<<>> \o [j \in 1..len |-> 0] : z \in {0} \cap (0..(7 - rs.mm))}
               \cup {<<>> \o [j \in 1..len |-> 1],
                     <<>> \o [j \in 1..len |-> (3 * j + 1) % (rs.nn + 1)]} : len \in lengths}

\* The block with the symbols at the positions of `changed` replaced.
Corrupt(block, changed) ==
    <<>> \o [j \in 1..Len(block) |->
                IF (j - 1) \in changed THEN (IF block[j] = 1 THEN 2 ELSE 1) ELSE block[j]]

\* Positions at which a block is changed, or declared erased.
PositionSets(len) == {c \in SUBSET {0, 1, len - 1} : Cardinality(c) <= 2 /\ \A q \in c : q >= 0}

\* rs.Decode(received, nil) on received, which is rs.Encode(data) with the
\* symbols at `changed` replaced.
DecodeAfterEncode(data, changed) ==
    /\ rt.pc = "ready" /\ rt.kind = "rs"
    /\ LET coded == RSEncode(rt.rs, data)
           received == Corrupt(coded.out, changed \cap (0..(Len(coded.out) - 1)))
       IN  rt' = [pc |-> "done", kind |-> "rsround", rs |-> rt.rs, data |-> data,
                  coded |-> coded, received |-> received,
                  res |-> IF coded.err = "none" THEN RSDecode(rt.rs, received, {})
                          ELSE [err |-> "panic", out |-> <<>>]]
    /\ UNCHANGED <<senderVars, receiverVars, watch>>

\* rs.Decode(received, erasures)
DecodeReceived(received, erasures) ==
    /\ rt.pc = "ready" /\ rt.kind = "rs"
    /\ rt' = [pc |-> "done", kind |-> "rsdecode", rs |-> rt.rs, received |-> received,
              erasures |-> erasures,
              zero |-> /\ ~SyndromesPanic(rt.rs, received)
                       /\ Syndromes(rt.rs, received) = Zeros(rt.rs.nroots),
              res |-> RSDecode(rt.rs, received, erasures)]
    /\ UNCHANGED <<senderVars, receiverVars, watch>>

RSRoundNext ==
    \/ \E mm \in SymbolBits : \E fcr \in FirstRoots : \E prim \in PrimSteps :
           \E nroots \in 1..MaxRoots : NewRSCodec(mm, fcr, prim, nroots)
    \/ /\ rt.pc = "ready"
       /\ \E data \in Blocks(MaxBlock) \cup FillBlocks(rt.rs) :
              \E changed \in PositionSets(Len(data) + rt.rs.nroots) :
                  DecodeAfterEncode(data, changed)
    \/ CodecReset

\* NewRS on chosen configurations, Decode on encoded blocks, some of their
\* symbols replaced.
RSRoundSpec == Init /\ [][RSRoundNext]_vars

RSDecodeNext ==
    \/ \E mm \in SymbolBits : \E fcr \in FirstRoots : \E prim \in PrimSteps :
           \E nroots \in 1..MaxRoots : NewRSCodec(mm, fcr, prim, nroots)
    \/ /\ rt.pc = "ready"
       /\ \E received \in Blocks(MaxBlock) \cup FillBlocks(rt.rs) :
              \E erasures \in PositionSets(Len(received)) : DecodeReceived(received, erasures)
    \/ CodecReset

\* NewRS on chosen configurations, Decode on chosen blocks and erasures.
RSDecodeSpec == Init /\ [][RSDecodeNext]_vars

(* ---------------------------- grid locator --------------------------- *)

\* step := 10
Step == 10
\* padding := 20
Padding == 20

\* Non-white only when every channel is below half intensity.
IsDark(pixel) == pixel[1] < 128 /\ pixel[2] < 128 /\ pixel[3] < 128

\* r < 0xFF00 || g < 0xFF00 || b < 0xFF00 on the 16-bit channels c * 257
IsNonWhite(pixel) == \E ch \in 1..3 : pixel[ch] * 257 < 65280

\* The pixels DetectQRRegion looks at.
Samples(img) ==
    {<<Step * i, Step * j>> : i \in 0..((img.width - 1) \div Step),
                              j \in 0..((img.height - 1) \div Step)}

NonWhiteSamples(img) == {s \in Samples(img) : IsNonWhite(PixelAt(img, s[1], s[2]))}

SetMin(S) == CHOOSE m \in S : \A n \in S : m <= n
SetMax(S) == CHOOSE m \in S : \A n \in S : m >= n
AtLeast(low, n) == IF n < low THEN low ELSE n
AtMost(high, n) == IF n > high THEN high ELSE n

\* image.Rectangle{}
ZeroRect == [MinX |-> 0, MinY |-> 0, MaxX |-> 0, MaxY |-> 0]

\* image.Rect(x0, y0, x1, y1)
Rect(x0, y0, x1, y1) ==
    [MinX |-> IF x0 > x1 THEN x1 ELSE x0, MinY |-> IF y0 > y1 THEN y1 ELSE y0,
     MaxX |-> IF x0 > x1 THEN x0 ELSE x1, MaxY |-> IF y0 > y1 THEN y0 ELSE y1]

\* Rectangle.Empty, Dx, Dy
Empty(r) == r.MinX >= r.MaxX \/ r.MinY >= r.MaxY
Dx(r) == r.MaxX - r.MinX
Dy(r) == r.MaxY - r.MinY

\* DetectQRRegion.  float64(nonWhiteCount)/float64(totalCount) < 0.1 is
\* 10 * nonWhiteCount < totalCount: the quotient of n and 10n is the double
\* 0.1 itself.
DetectQRRegion(img) ==
    LET nonWhite == NonWhiteSamples(img)
        xs == {s[1] : s \in nonWhite}
        ys == {s[2] : s \in nonWhite}
    IN  IF nonWhite = {} \/ 10 * Cardinality(nonWhite) < Cardinality(Samples(img))
        THEN ZeroRect
        ELSE Rect(AtLeast(0, SetMin(xs) - Padding), AtLeast(0, SetMin(ys) - Padding),
                  AtMost(img.width, SetMax(xs) + Padding),
                  AtMost(img.height, SetMax(ys) + Padding))

\* int((r+g+b)/3) >> 8 on the 16-bit channels
Gray(pixel) == (((pixel[1] + pixel[2] + pixel[3]) * 257) \div 3) \div 256

\* abs(gray1-gray2) > threshold
Edge(img, x1, y1, x2, y2) ==
    LET g1 == Gray(PixelAt(img, x1, y1))
        g2 == Gray(PixelAt(img, x2, y2))
    IN  (IF g1 < g2 THEN g2 - g1 ELSE g1 - g2) > 128

\* FindGridLines: len(rows), len(cols)
FindGridLines(img) ==
    <<Cardinality({y \in 0..(img.height - 1) :
          Cardinality({x \in 0..(img.width - 2) : Edge(img, x, y, x + 1, y)})
              > img.width \div 4}),
      Cardinality({x \in 0..(img.width - 1) :
          Cardinality({y \in 0..(img.height - 2) : Edge(img, x, y, x, y + 1)})
              > img.height \div 4})>>

MakeOdd(n) == IF n % 2 = 0 THEN n + 1 ELSE n

\* Which return of EstimateGridSize is taken.  The second DetectQRRegion
\* (line 157) gives what the first gave, so line 159 is never reached.
EstimatePath(detected, lines) ==
    IF Empty(detected) THEN "no region"
    ELSE IF lines[1] = 0 \/ lines[2] = 0 THEN "no lines"
    ELSE "lines"

\* EstimateGridSize: <<width, height>>
EstimateGridSize(img, blockSize) ==
    LET detected == DetectQRRegion(img)
        lines == FindGridLines(img)
        path == EstimatePath(detected, lines)
    IN  CASE path = "no region" -> <<img.width \div blockSize, img.height \div blockSize>>
          [] path = "no lines" ->
                <<MakeOdd(Dx(detected) \div blockSize), MakeOdd(Dy(detected) \div blockSize)>>
          [] path = "lines" -> <<MakeOdd(lines[2]), MakeOdd(lines[1])>>

\* captureFrame from EstimateGridSize to VerifyChunk on the captured image:
\* whether the frame is skipped for want of a grid, decoded and rejected,
\* decoded and recorded, or the receiver stops on a run-time panic.
FrameOutcome(img) ==
    LET grid == EstimateGridSize(img, 20)
        cfg == [GridWidth |-> grid[1], GridHeight |-> grid[2], BorderSize |-> 1,
                ErrorLevel |-> "Low"]
        res == DeserializeChunk(BlocksToData(Decode(img, cfg)))
    IN  IF grid[1] = 0 \/ grid[2] = 0 THEN "skipped"
        ELSE IF res.err = "panic" THEN "panic"
        ELSE IF res.err # "none" THEN "rejected"
        ELSE IF VerifyChunk(res.chunk) THEN "recorded" ELSE "rejected"

Black == <<0, 0, 0>>
NearWhite == <<255, 255, 254>>

\* The sets of at most k of the points.
RECURSIVE DotSets(_, _)
DotSets(points, k) ==
    IF k = 0 THEN {{}}
    ELSE LET fewer == DotSets(points, k - 1)
         IN  fewer \cup {d \cup {pt} : d \in fewer, pt \in points}

\* Sizes of the captures DetectQRRegion is applied to: one sample; ten
\* samples; sixteen samples, wide and high enough for the padding not to
\* reach the edge.
RegionSizes == {<<1, 1>>, <<45, 15>>, <<75, 15>>, <<15, 75>>}

\* detected := DetectQRRegion(img)
DetectRegion(img) ==
    /\ rt.pc = "idle"
    /\ rt' = [pc |-> "done", kind |-> "region", img |-> img, region |-> DetectQRRegion(img)]
    /\ UNCHANGED <<senderVars, receiverVars, watch>>

RegionNext ==
    \/ \E size \in RegionSizes : \E colour \in {Black, NearWhite} :
           \E dots \in DotSets(Samples([width |-> size[1], height |-> size[2]]), MaxDots) :
               DetectRegion(DotsImage(size[1], size[2], dots, colour))
    \/ CodecReset

\* DetectQRRegion on white captures with up to MaxDots non-white samples.
RegionSpec == Init /\ [][RegionNext]_vars

\* Sides of the captures the grid size is estimated for.
CaptureSides == {10, 19, 20, 30, 50, 60}

\* The captures: white ones, the size of the sender's window among them;
\* white ones with one non-white sample; boards of black and white squares
\* of 1, 2, 10 pixels and a black square, over the whole capture or over its
\* middle; a 3x3 grid with its border as CreateImage draws it.
Captures ==
    {DotsImage(w, h, {}, White) : w \in CaptureSides, h \in CaptureSides}
    \cup {DotsImage(400, 400, {}, White)}
    \cup {DotsImage(w, w, {<<10, 10>>}, Black) : w \in {50, 60}}
    \cup {CheckerImage(w, h, 0, 0, w, h, cell, Black) :
              w \in {30, 50, 60}, h \in {30, 50, 60}, cell \in {1, 2, 10, 100}}
    \cup {CheckerImage(w, h, 10, 10, w - 10, h - 10, cell, Black) :
              w \in {30, 50, 60}, h \in {30, 50, 60}, cell \in {1, 2, 10, 100}}
    \cup {CreateImage(Encode(GridData(0, 9), cfg), cfg, 100, 100) :
              cfg \in {[GridWidth |-> 3, GridHeight |-> 3, BorderSize |-> 1,
                        ErrorLevel |-> "Low"]}}

\* gridWidth, gridHeight := screen.EstimateGridSize(img, blockSize)
EstimateGrid(img, blockSize) ==
    /\ rt.pc = "idle"
    /\ rt' = [pc |-> "done", kind |-> "estimate", img |-> img, blockSize |-> blockSize,
              path |-> EstimatePath(DetectQRRegion(img), FindGridLines(img)), grid |-> EstimateGridSize(img, blockSize)]
    /\ UNCHANGED <<senderVars, receiverVars, watch>>

\* captureFrame on the captured image img, up to r.mu.Lock()
CaptureFrameOn(img) ==
    /\ rt.pc = "idle"
    /\ rt' = [pc |-> "done", kind |-> "capture", img |-> img,
              region |-> DetectQRRegion(img), grid |-> EstimateGridSize(img, 20),
              outcome |-> FrameOutcome(img)]
    /\ UNCHANGED <<senderVars, receiverVars, watch>>

LocatorNext ==
    \/ \E img \in Captures : \E blockSize \in {10, 20} : EstimateGrid(img, blockSize)
    \/ \E img \in Captures : CaptureFrameOn(img)
    \/ CodecReset

\* The grid locator and captureFrame on chosen captures.
LocatorSpec == Init /\ [][LocatorNext]_vars

\* width, height := OptimalGridSize(dataSize)
ChooseGrid(dataSize) ==
    /\ rt.pc = "idle"
    /\ rt' = [pc |-> "done", kind |-> "grid", dataSize |-> dataSize,
              width |-> OptimalGridSize(dataSize), height |-> OptimalGridSize(dataSize)]
    /\ UNCHANGED <<senderVars, receiverVars, watch>>

GridNext ==
    \/ \E dataSize \in 0..MaxDataSize : ChooseGrid(dataSize)
    \/ CodecReset

\* OptimalGridSize on every data size up to MaxDataSize.
GridSpec == Init /\ [][GridNext]_vars

(* --------------------------- specifications --------------------------- *)

SenderSpec == Init /\ [][SenderNext]_vars

ReceiverNext ==
    \/ StartCapture
    \/ StopCapture
    \/ \E l \in 1..MaxLoops : \E input \in OtherInputs : CaptureAny(l, input)
    \/ \E l \in 1..MaxLoops : RecordChunk(l)
    \/ \E l \in 1..MaxLoops : UpdateStatus(l)
    \/ \E l \in 1..MaxLoops : LoopExit(l)
    \/ SaveFile
    \/ \E writeOk \in BOOLEAN : AssembleStep(writeOk)
    \/ AssembleFinish

\* The receiver alone, capturing whatever its region shows.
ReceiverSpec == Init /\ [][ReceiverNext]_vars

TableNext ==
    \/ StartCapture
    \/ \E input \in OtherInputs : CaptureAny(1, input)
    \/ RecordChunk(1)
    \/ UpdateStatus(1)
    \/ SaveFile
    \/ \E writeOk \in BOOLEAN : AssembleStep(writeOk)
    \/ AssembleFinish

\* One capture loop, never stopped, and assembleFile.
TableSpec == Init /\ [][TableNext]_vars

\* The side of the grid found in a capture of a blank region.
BlankSide == 5

\* A capture in which every cell of the grid reads white: BlocksToData
\* yields bytes of 255 throughout.
BlankCapture ==
    [kind |-> "data", data |-> <<>> \o [j \in 1..(BlankSide * BlankSide * 3) |-> 255],
     pos |-> -1, tag |-> "none"]

\* The capture fails before DeserializeChunk: CaptureRegion returns an error
\* or no image, no grid is found, or Decode fails.
NoFrame == [kind |-> "fail", pos |-> -1, tag |-> "none"]

FramesNext ==
    \/ StartCapture
    \/ StopCapture
    \/ \E l \in 1..MaxLoops : \E input \in OtherInputs \cup {BlankCapture, NoFrame} :
           CaptureAny(l, input)
    \/ \E l \in 1..MaxLoops : RecordChunk(l)
    \/ \E l \in 1..MaxLoops : UpdateStatus(l)
    \/ \E l \in 1..MaxLoops : LoopExit(l)
    \/ SaveFile
    \/ \E writeOk \in BOOLEAN : AssembleStep(writeOk)
    \/ AssembleFinish

\* The receiver alone, its region showing frames, damaged frames, a blank
\* grid or nothing to decode.
FramesSpec == Init /\ [][FramesNext]_vars

\* One sender and one receiver: files are loaded and transferred, the capture
\* loop reads the sender's window, the file is assembled.
Next ==
    \/ \E f \in 1..Len(Files) : LoadFile(f)
    \/ StartTransfer
    \/ TimerWake
    \/ StartCapture
    \/ \E l \in 1..MaxLoops : \E input \in ScreenInputs : CaptureScreen(l, input)
    \/ \E l \in 1..MaxLoops : RecordChunk(l)
    \/ \E l \in 1..MaxLoops : UpdateStatus(l)
    \/ SaveFile
    \/ \E writeOk \in BOOLEAN : AssembleStep(writeOk)
    \/ AssembleFinish

Spec == Init /\ [][Next]_vars

(* ------------------------------ claims -------------------------------- *)

\* Bytes lo+1..hi of the loaded file, hi cut at its end.
FileWindow(lo, hi) ==
    SubSeq(Files[filename], lo + 1, IF hi < Len(Files[filename]) THEN hi
                                    ELSE Len(Files[filename]))

\* startTransfer was called once on a loaded, idle sender, was not stopped,
\* and its loop is over.
TransferOver == transfer = "clean" /\ ~running /\ timers = 0

\* The frames shown are the metadata frame and then the data chunks
\* 0..N-1 of the loaded file, each once.
ShownInOrder ==
    /\ Len(shown) = FileChunkCount + 1
    /\ LET first == DeserializeChunk(shown[1])
       IN  /\ first.err = "none"
           /\ first.chunk.Index = U32(0)
           /\ first.chunk.Total = U32(FileChunkCount + 1)
           /\ first.chunk.Data = SerializeMetadata(metadata)
    /\ \A k \in 1..FileChunkCount :
           LET frame == DeserializeChunk(shown[k + 1])
           IN  /\ frame.err = "none"
               /\ frame.chunk.Index = U32(k - 1)
               /\ frame.chunk.Data = FileWindow((k - 1) * ChunkSize, k * ChunkSize)

\* C7: there is never more than one pending or executing displayCurrentChunk:
\* at most one goroutine of the display loop is alive.
SingleDisplayLoop_C7 == timers <= 1

\* C8: an uninterrupted transfer of a file with N data chunks displays
\* exactly N+1 frames, the metadata frame (index 0, total N+1, payload the
\* serialized metadata) and then the data chunks 0..N-1, each once, and ends
\* with running = false.
TransmissionOrder_C8 == TransferOver => ShownInOrder

\* The order does hold for every file of at least one chunk.
TransmissionOrderNonEmpty == TransferOver /\ FileChunkCount >= 1 => ShownInOrder

\* The data frames shown for chunk index i.
FramesShownFor(i) ==
    Cardinality({k \in 2..Len(shown) : DeserializeChunk(shown[k]).chunk.Index = U32(i)})

\* C9: with redundancy level k selected each chunk is sent k times: after an
\* uninterrupted transfer the number of frames shown per chunk index equals
\* the selected redundancy.
RedundantTransmission_C9 ==
    TransferOver /\ FileChunkCount >= 1 =>
        \A i \in 0..(FileChunkCount - 1) : FramesShownFor(i) = redundancySelect

\* C10: for every chunk whose payload length fits in 32 bits,
\* DeserializeChunk(SerializeChunk(c)) succeeds and returns a chunk equal to
\* c in index, total, payload, checksum and timestamp.
ChunkRoundTrip_C10 ==
    rt.pc = "done" =>
        /\ rt.res.err = "none"
        /\ rt.kind = "chunk" => rt.res.chunk = rt.chunk

\* The round trip does hold for every payload shorter than 2^32 - 44 bytes:
\* up to there 12 + dataLen + 32 does not wrap.
ChunkRoundTripBelowWrap ==
    rt.pc = "done" /\ (rt.kind = "long" => Less(rt.len, <<AllOnes16, Half - 44>>)) =>
        /\ rt.res.err = "none"
        /\ rt.kind = "chunk" => rt.res.chunk = rt.chunk

\* From 2^32 - 44 bytes on DeserializeChunk panics.
ChunkRoundTripPanics ==
    rt.pc = "done" /\ rt.kind = "long" /\ ~Less(rt.len, <<AllOnes16, Half - 44>>) =>
        rt.res.err = "panic"

\* C1: when the metadata frame and every data chunk of the loaded file were
\* shown and each was captured uncorrupted, once, in transmission order,
\* assembleFile writes exactly the bytes of the file and reports no missing
\* chunk.
EndToEndDelivery_C1 ==
    watch.assembled /\ asm.pc = "done" /\ ~asm.err =>
        /\ Written = Files[filename]
        /\ asm.report = 0

\* What the receiver does with the document instead: its metadata frame
\* carries no checksum and is dropped, r.metadata keeps TotalChunks = 0 and
\* assembleFile writes nothing.
DocumentNotDelivered ==
    watch.assembled /\ asm.pc = "done" /\ Files[filename] = Doc =>
        /\ Written = <<>>
        /\ asm.report = 0

\* C2: captureFrame never gives the payload of a data chunk to
\* DeserializeMetadata, and the payload of a metadata frame is never
\* recorded in the table under index 0.
MetadataKeptApart_C2 == ~watch.metaFromData /\ ~watch.metaRecorded

\* The indices below total that the table holds.
PresentIn(table, total) == {i \in 0..(total - 1) : U32(i) \in DOMAIN table}

\* C3: with TotalChunks = N, assembleFile writes one payload for each index
\* in [0, N) present in the table, in ascending index order, nothing for an
\* absent index or an index >= N; what it wrote stays written when a write
\* fails; and when it ends without a write error it reports as missing the
\* number of indices in [0, N) absent from the table.
AssemblyWithGaps_C3 ==
    asm.pc # "idle" =>
        LET present == PresentIn(asm.table, asm.total)
            passed == {i \in present : i < asm.i}
        IN  /\ Len(asm.parts) = Cardinality(passed)
            /\ \A k \in 1..Len(asm.parts) :
                    /\ asm.parts[k].index \in passed
                    /\ \A j \in 1..(k - 1) : asm.parts[j].index < asm.parts[k].index
                    /\ \E c \in 1..Len(asm.table[U32(asm.parts[k].index)]) :
                           asm.parts[k].data = asm.table[U32(asm.parts[k].index)][c].Data
            /\ asm.pc = "done" /\ ~asm.err =>
                    /\ asm.i = asm.total
                    /\ asm.report = asm.total - Cardinality(present)

\* An assembly that ended with a payload written, an index of [0, N)
\* absent, an entry at an index >= N, and one chunk reported missing.
AssemblyWithGapsWitness ==
    /\ asm.pc = "done" /\ ~asm.err
    /\ Len(asm.parts) >= 1
    /\ \E i \in 0..(asm.total - 1) : U32(i) \notin DOMAIN asm.table
    /\ \E index \in DOMAIN asm.table : ~Less(index, U32(asm.total))
    /\ asm.report = 1

\* The copy's payload is the one its checksum was computed from.
Sound(c) == Digest(c.Data) = c.Checksum

\* C4: for a chunk index whose entry holds a copy that verifies,
\* assembleFile writes the payload of a copy that verifies and never the
\* payload of a corrupted copy.
RedundantCopySelection_C4 ==
    asm.pc # "idle" =>
        \A k \in 1..Len(asm.parts) :
            LET copies == asm.table[U32(asm.parts[k].index)]
            IN  (\E c \in 1..Len(copies) : Sound(copies[c])) =>
                    /\ \E c \in 1..Len(copies) :
                           Sound(copies[c]) /\ asm.parts[k].data = copies[c].Data
                    /\ \A c \in 1..Len(copies) :
                           ~Sound(copies[c]) => asm.parts[k].data # copies[c].Data

\* A payload was written for an index that holds MaxCopies copies, the
\* first of them corrupted and a later one sound.
RedundantCopySelectionWitness ==
    /\ asm.pc = "done"
    /\ \E k \in 1..Len(asm.parts) :
           LET copies == asm.table[U32(asm.parts[k].index)]
           IN  /\ Len(copies) = MaxCopies
               /\ ~Sound(copies[1])
               /\ \E c \in 2..Len(copies) : Sound(copies[c])

\* C5: a goroutine that is about to read or write receivedChunks holds the
\* mutex: a capture loop between r.mu.Lock() and the end of updateStatus's
\* argument evaluation, assembleFile throughout its loops.
TableAccessLocked_C5 ==
    /\ \A l \in 1..MaxLoops : loops[l].pc \in {"locked", "status"} => mu = l
    /\ asm.pc = "loop" => mu = -1

\* The critical sections themselves do exclude each other.
CriticalSectionsExclusive ==
    /\ \A l \in 1..MaxLoops : loops[l].pc = "locked" => mu = l
    /\ asm.pc = "loop" => mu = -1

\* C6: at most one captureLoop is alive at any time.
SingleCaptureLoop_C6 == Cardinality({l \in 1..MaxLoops : loops[l].pc # "none"}) <= 1
\* The payload length a buffer declares, as a Go int.
DeclaredLen(data) == IF Len(data) < 12 THEN Wide(0) ELSE ReadBE32(data, 8)

\* The buffer is shorter than 12 + payloadLen + 32 + 8 bytes.
TooShort(data) ==
    Less(Wide(Len(data)), WideAdd(DeclaredLen(data), 12 + ChecksumWidth + 8))

\* C11: DeserializeChunk returns ShortBuffer, and neither returns a chunk
\* nor faults, for every input shorter than 12 + payloadLen + 32 + 8 bytes,
\* whatever payloadLen in 0..2^32-1 its bytes [8,12) declare.
ShortFrameRejected_C11 ==
    rt.pc = "done" /\ rt.kind = "frame" /\ TooShort(rt.data) => rt.res.err = "short"

\* It does so whenever 12 + payloadLen + 32 + 8 fits in 32 bits.
ShortFrameRejectedBelowWrap ==
    rt.pc = "done" /\ rt.kind = "frame" /\ TooShort(rt.data)
        /\ Less(DeclaredLen(rt.data), <<AllOnes16, Half - 52>>) => rt.res.err = "short"

\* No buffer shorter than 52 bytes yields a chunk.
NoChunkBelowMinimum ==
    rt.pc = "done" /\ rt.kind = "frame" /\ Len(rt.data) < 12 + ChecksumWidth + 8 =>
        rt.res.err # "none"

\* C12: VerifyChunk is true for every chunk built as {data: d, checksum:
\* digest(d)}, and false once any single byte of the payload has changed
\* while the checksum was kept.
VerifyChunkExact_C12 ==
    rt.pc = "done" /\ rt.kind = "verify" => rt.sound /\ ~rt.altered

\* The last byte of a full chunk was changed and the chunk verified before.
VerifyChunkExactWitness ==
    /\ rt.pc = "done" /\ rt.kind = "verify"
    /\ Len(rt.data) = ChunkSize /\ rt.pos = ChunkSize
    /\ rt.sound

\* The primary payloads of groups k.. in order, concatenated.
RECURSIVE PrimaryPayloads(_, _)
PrimaryPayloads(groups, k) ==
    IF k > Len(groups) THEN <<>> ELSE groups[k][1].Data \o PrimaryPayloads(groups, k + 1)

\* Consecutive indices from 0, and the payloads make up the stream.
KeepsStream(groups, length) ==
    /\ \A g \in 1..Len(groups) : \A c \in 1..Len(groups[g]) : groups[g][c].Index = U32(g - 1)
    /\ PrimaryPayloads(groups, 1) = Stream(length)

\* ceil(L/S) groups, each payload S bytes long but possibly the last.
FullChunks(groups, length) ==
    /\ Len(groups) = (length + ChunkSize - 1) \div ChunkSize
    /\ \A g \in 1..(Len(groups) - 1) : Len(groups[g][1].Data) = ChunkSize

\* C13: for a reader delivering a stream of L bytes, however it splits them
\* across Read calls, CreateChunks yields ceil(L/S) groups with indices
\* 0..ceil(L/S)-1, every payload S bytes long except possibly the last, and
\* the primary payloads in order make up the stream.
CreateChunksAnyReader_C13 ==
    rt.pc = "done" /\ rt.kind = "chunks" =>
        KeepsStream(rt.groups, rt.length) /\ FullChunks(rt.groups, rt.length)

\* It does for a reader that fills the buffer on every Read but the last.
CreateChunksFullReads ==
    rt.pc = "done" /\ rt.kind = "chunks" /\ rt.piece = ChunkSize =>
        KeepsStream(rt.groups, rt.length) /\ FullChunks(rt.groups, rt.length)

\* For any reader the indices are consecutive and the stream is kept.
CreateChunksKeepsStream ==
    rt.pc = "done" /\ rt.kind = "chunks" => KeepsStream(rt.groups, rt.length)

\* C14 as stated: at level Low, with encoder and decoder sharing grid size
\* and border, the first len(d) bytes of
\* BlocksToData(Decode(CreateImage(Encode(d)))) equal d for every d whose
\* length is a multiple of 3 and fits the grid.
ColourRoundTripAnyImage ==
    rt.pc = "done" /\ rt.kind = "colour" => SubSeq(rt.out, 1, Len(rt.data)) = rt.data

\* The image is at least GridWidth + 2*BorderSize pixels wide, so that a
\* cell is p >= 1 pixels wide, and at least (GridHeight + 2*BorderSize) * p
\* pixels high.
ImageHoldsGrid(cfg, width, height) ==
    /\ BlockPixelSize(cfg, width) >= 1
    /\ height >= (cfg.GridHeight + 2 * cfg.BorderSize) * BlockPixelSize(cfg, width)

\* C14, amended: the round trip at level Low is lossless when moreover the
\* image holds the grid.
ColourRoundTrip_C14 ==
    rt.pc = "done" /\ rt.kind = "colour" /\ ImageHoldsGrid(rt.cfg, rt.width, rt.height) =>
        SubSeq(rt.out, 1, Len(rt.data)) = rt.data

\* A 2x2 grid with a border went through an image that holds it, with the
\* channel values 0 and 255 among the data.
ColourRoundTripWitness ==
    /\ rt.pc = "done" /\ rt.kind = "colour"
    /\ rt.cfg.GridWidth = 2 /\ rt.cfg.GridHeight = 2 /\ rt.cfg.BorderSize = 1
    /\ ImageHoldsGrid(rt.cfg, rt.width, rt.height)
    /\ rt.data[1] = 0 /\ rt.data[2] = 255
    /\ SubSeq(rt.out, 1, Len(rt.data)) = rt.data

\* |a - b|
Distance(a, b) == IF a < b THEN b - a ELSE a - b

\* C15: at Medium and High the recovered value differs from the original
\* channel byte by at most 256/2^bits (4 at Medium, 16 at High).
QuantisationBound_C15 ==
    rt.pc = "done" /\ rt.kind = "channel" /\ rt.level \in {"Medium", "High"} =>
        Distance(rt.back, rt.v) <= 256 \div Pow2(Bits(rt.level))

\* What does hold: an error below 16 at High, below 8 at Medium, none at Low.
QuantisationActual ==
    rt.pc = "done" /\ rt.kind = "channel" =>
        Distance(rt.back, rt.v) <=
            CASE rt.level = "High" -> 15 [] rt.level = "Medium" -> 7 [] rt.level = "Low" -> 0

\* C16: OptimalGridSize(n) returns (s, s) with s odd and s*s*3 >= n for
\* every n >= 0, n = 0 included, so that a frame of n bytes fits the grid
\* chosen for it.
OptimalGridSize_C16 ==
    rt.pc = "done" /\ rt.kind = "grid" =>
        /\ rt.width = rt.height
        /\ rt.width % 2 = 1
        /\ rt.width * rt.width * 3 >= rt.dataSize

\* The grid of a full chunk's frame, whose side of 8 cells was made odd.
OptimalGridSizeWitness ==
    /\ rt.pc = "done" /\ rt.kind = "grid"
    /\ rt.dataSize = 12 + ChunkSize + ChecksumWidth + 8
    /\ rt.width = CeilSqrt((rt.dataSize + 2) \div 3) + 1
    /\ rt.width % 2 = 1 /\ rt.width * rt.width * 3 >= rt.dataSize

\* C17: EstimateGridSize returns an odd width and an odd height on every
\* return path that yields non-zero dimensions: lines found, no lines, no
\* region.
EstimateGridSizeOdd_C17 ==
    rt.pc = "done" /\ rt.kind = "estimate" /\ rt.grid[1] # 0 /\ rt.grid[2] # 0 =>
        rt.grid[1] % 2 = 1 /\ rt.grid[2] % 2 = 1

\* What does hold: both dimensions are odd when a region was detected, with
\* or without grid lines.
EstimateGridSizeOddInRegion ==
    rt.pc = "done" /\ rt.kind = "estimate" /\ rt.path # "no region" =>
        rt.grid[1] % 2 = 1 /\ rt.grid[2] % 2 = 1

\* C18: when DetectQRRegion returns an empty rectangle (an all-white
\* capture, say), EstimateGridSize returns (0,0) and captureFrame skips the
\* frame without decoding it.
NoGridSkipped_C18 ==
    rt.pc = "done" /\ rt.kind = "capture" /\ Empty(rt.region) =>
        rt.grid = <<0, 0>> /\ rt.outcome = "skipped"

\* What does hold: without a region the frame is skipped exactly when the
\* capture is less than 20 pixels wide or high, and a white capture of the
\* size of the sender's window stops the receiver.
NoGridSkippedWhenSmall ==
    rt.pc = "done" /\ rt.kind = "capture" /\ Empty(rt.region) =>
        /\ rt.outcome = "skipped" <=> (rt.img.width < 20 \/ rt.img.height < 20)
        /\ rt.img.width = 400 => rt.outcome = "panic"

\* The samples that are not white, read off the image itself.
Coloured(img) == {s \in Samples(img) : PixelAt(img, s[1], s[2]) # White}

\* C19: DetectQRRegion returns an empty rectangle for an all-white image
\* and whenever fewer than 10% of the stride-10 samples are non-white;
\* otherwise it returns a rectangle within the image bounds that contains
\* every non-white sample: their bounding box, extended by the padding and
\* clamped.
DetectQRRegion_C19 ==
    rt.pc = "done" /\ rt.kind = "region" =>
        LET dark == Coloured(rt.img)
            r == rt.region
        IN  IF dark = {} \/ 10 * Cardinality(dark) < Cardinality(Samples(rt.img))
            THEN Empty(r)
            ELSE /\ 0 <= r.MinX /\ r.MinX < r.MaxX /\ r.MaxX <= rt.img.width
                 /\ 0 <= r.MinY /\ r.MinY < r.MaxY /\ r.MaxY <= rt.img.height
                 /\ \A s \in dark : /\ r.MinX <= s[1] /\ s[1] < r.MaxX
                                     /\ r.MinY <= s[2] /\ s[2] < r.MaxY
                 /\ r.MinX = AtLeast(0, SetMin({s[1] : s \in dark}) - 20)
                 /\ r.MinY = AtLeast(0, SetMin({s[2] : s \in dark}) - 20)
                 /\ r.MaxX = AtMost(rt.img.width, SetMax({s[1] : s \in dark}) + 20)
                 /\ r.MaxY = AtMost(rt.img.height, SetMax({s[2] : s \in dark}) + 20)

\* A region around two near-white samples, an eighth of the samples, whose
\* padding reaches neither the left nor the right edge and is cut at the
\* top and the bottom.
DetectQRRegionWitness ==
    /\ rt.pc = "done" /\ rt.kind = "region"
    /\ rt.img.colour = NearWhite /\ Cardinality(Coloured(rt.img)) = 2
    /\ Cardinality(Samples(rt.img)) = 16
    /\ rt.region.MinX > 0 /\ rt.region.MaxX < rt.img.width
    /\ rt.region.MinY = 0 /\ rt.region.MaxY = rt.img.height
    /\ \A s \in Coloured(rt.img) : rt.region.MinX <= s[1] /\ s[1] < rt.region.MaxX

\* C20: for every codec configuration (mm, fcr, prim, r >= 1) and every
\* data block, blocks with the byte 0 included, RS.Encode completes and
\* returns len(data)+r bytes whose first len(data) bytes are the data.
EncodeSystematic_C20 ==
    rt.pc = "done" /\ rt.kind = "rs" /\ rt.rs.ok =>
        /\ rt.res.err = "none"
        /\ Len(rt.res.out) = Len(rt.data) + rt.rs.nroots
        /\ SubSeq(rt.res.out, 1, Len(rt.data)) = rt.data

\* What does hold: an Encode that completes returns the data followed by
\* r bytes.
EncodeSystematicWhenComplete ==
    rt.pc = "done" /\ rt.kind = "rs" /\ rt.rs.ok /\ rt.res.err = "none" =>
        /\ Len(rt.res.out) = Len(rt.data) + rt.rs.nroots
        /\ SubSeq(rt.res.out, 1, Len(rt.data)) = rt.data

\* What does hold: with first root 0 and one parity symbol, Encode stops on
\* every block that starts with the byte 0.
EncodeStopsOnZero ==
    /\ rt.pc = "done" /\ rt.kind = "rs" /\ rt.rs.ok
    /\ rt.rs.fcr = 0 /\ rt.rs.nroots = 1
    /\ Len(rt.data) > 0 /\ rt.data[1] = 0
    => rt.res.err = "panic"

\* C21: for every data block, Decode(Encode(data)) with no erasures returns
\* no error and returns the data unchanged (here: for every block Encode
\* completes on, and with the data as the head of what Decode returns).
RSRoundTrip_C21 ==
    /\ rt.pc = "done" /\ rt.kind = "rsround"
    /\ rt.coded.err = "none" /\ rt.received = rt.coded.out
    => /\ rt.res.err = "none"
       /\ SubSeq(rt.res.out, 1, Len(rt.data)) = rt.data

\* What does hold: the encoded block is refused as too short when it is
\* shorter than nn + 1 - r, and when Decode accepts it, it is returned
\* whole, parity included.
RSRoundTripWhenAccepted ==
    /\ rt.pc = "done" /\ rt.kind = "rsround"
    /\ rt.coded.err = "none" /\ rt.received = rt.coded.out
    => /\ Len(rt.received) < rt.rs.nn + 1 - rt.rs.nroots => rt.res.err = "length"
       /\ rt.res.err = "none" => rt.res.out = rt.coded.out

\* The number of positions at which the received block differs from the
\* encoded one.
SymbolErrors == Cardinality({j \in 1..Len(rt.received) : rt.received[j] # rt.coded.out[j]})

\* C22: when the received block differs from Encode(data) in at least one
\* and at most floor(r/2) positions and no erasures are declared, Decode
\* returns no error and the original codeword; TooManyErrors is returned
\* only when more than floor(r/2) symbols are in error.
RSCorrects_C22 ==
    rt.pc = "done" /\ rt.kind = "rsround" /\ rt.coded.err = "none" =>
        /\ SymbolErrors >= 1 /\ SymbolErrors <= rt.rs.nroots \div 2 =>
               rt.res.err = "none" /\ rt.res.out = rt.coded.out
        /\ rt.res.err = "too many" => SymbolErrors > rt.rs.nroots \div 2

\* What does hold: a block that differs from the codeword never comes back
\* as the codeword.
RSNeverCorrects ==
    rt.pc = "done" /\ rt.kind = "rsround" /\ rt.coded.err = "none" /\ SymbolErrors >= 1 =>
        rt.res.err # "none" \/ rt.res.out = rt.received

\* Decode got past its length test and computed the syndromes.
SyndromesKnown ==
    /\ rt.pc = "done" /\ rt.kind = "rsdecode"
    /\ Len(rt.received) >= rt.rs.nn + 1 - rt.rs.nroots
    /\ rt.res.err # "panic"

FailuresAreLocal_C23 ==
    /\ ~crashed
    /\ \A index \in DOMAIN receivedChunks : \A k \in 1..Len(receivedChunks[index]) :
           VerifyChunk(receivedChunks[index][k])

\* What does hold: every recorded copy verifies, and a step that moves no
\* capture loop forward leaves the table and the metadata as they were.
OnlyVerifiedRecorded ==
    \A index \in DOMAIN receivedChunks : \A k \in 1..Len(receivedChunks[index]) :
        VerifyChunk(receivedChunks[index][k])

FailedCaptureChangesNothing ==
    [][loops' = loops => UNCHANGED <<receivedChunks, rmetadata>>]_vars


\* C24: the received-chunk table only grows: no step removes an index or
\* removes or alters a recorded copy, and the steps of assembleFile leave
\* the table and the metadata unchanged.
TableOnlyGrows_C24 ==
    [][/\ \A index \in DOMAIN receivedChunks :
            /\ index \in DOMAIN receivedChunks'
            /\ Len(receivedChunks'[index]) >= Len(receivedChunks[index])
            /\ SubSeq(receivedChunks'[index], 1, Len(receivedChunks[index]))
                   = receivedChunks[index]
       /\ asm' # asm => UNCHANGED <<receivedChunks, rmetadata>>]_vars

\* assembleFile has written a file from a table in which some index holds two
\* copies, and the table is as the call found it.
TableOnlyGrowsWitness ==
    /\ asm.pc = "done" /\ asm.parts # <<>>
    /\ asm.table = receivedChunks
    /\ \E index \in DOMAIN receivedChunks : Len(receivedChunks[index]) >= 2

\* C28: the sender never indexes its chunk list out of range: under any
\* interleaving of loadFile, startTransfer, stopTransfer and timer wake-ups,
\* whenever displayCurrentChunk reads chunks[currentChunk-1] the index is
\* within the list, so that no such read panics.
ChunkIndexInRange_C28 == ~panicked

\* What does hold: the list is as long as totalChunks says, and a goroutine
\* that is alone in displayCurrentChunk reads within the list.
ChunkListMatchesTotal == Len(chunks) = totalChunks

LoneGoroutineInRange ==
    entered = 1 /\ timers = 0 /\ advancing = <<>> /\ running /\ currentChunk # 0 =>
        currentChunk >= 1 /\ currentChunk <= Len(chunks)

\* C29: sender and receiver agree on the colour-grid configuration: for
\* every error level selected on the sender, the border thickness and the
\* bits per channel of the Decoder that captureFrame builds equal those of
\* the Encoder that drew the frame.
ConfigurationsAgree_C29 ==
    rt.pc = "done" /\ rt.kind = "capture" =>
        /\ rt.dec.BorderSize = rt.enc.BorderSize
        /\ Bits(rt.dec.ErrorLevel) = Bits(rt.enc.ErrorLevel)

\* What does hold: the bits per channel agree when Low is selected.
BitsAgreeAtLow ==
    rt.pc = "done" /\ rt.kind = "capture" /\ rt.enc.ErrorLevel = "Low" =>
        Bits(rt.dec.ErrorLevel) = Bits(rt.enc.ErrorLevel)

\* The borders differ at every level, and the receiver never reads the
\* frame that was drawn.
FrameNeverReadBack ==
    rt.pc = "done" /\ rt.kind = "capture" =>
        /\ rt.dec.BorderSize # rt.enc.BorderSize
        /\ SubSeq(rt.data, 1, Len(rt.serialized)) # rt.serialized

\* The receiver's integrity check on an uncorrupted capture of a frame.
PassesIntegrityCheck(serialized) ==
    LET res == DeserializeChunk(GridBytes(serialized))
    IN  res.err = "none" /\ VerifyChunk(res.chunk)

\* C27: every frame the sender transmits passes the receiver's integrity
\* check: the metadata frame and every data-chunk frame built by
\* displayCurrentChunk carry the digest of their payload, so VerifyChunk is
\* true for an uncorrupted capture of any of them.
TransmittedFramesVerify_C27 ==
    \A k \in 1..Len(shown) : PassesIntegrityCheck(shown[k])

\* What does hold: every data-chunk frame passes; the first frame shown
\* after a file is loaded, the metadata frame, never does.
DataFramesVerify ==
    /\ \A k \in 2..Len(shown) : PassesIntegrityCheck(shown[k])
    /\ Len(shown) >= 1 => ~PassesIntegrityCheck(shown[1])

\* C25: cooperative cancellation: once stopTransfer has cleared s.running
\* and a goroutine has woken since, the sender displays no new frame and
\* schedules no further wake-up as long as no startTransfer follows; a
\* goroutine that wakes with s.running cleared does not call
\* displayCurrentChunk and schedules no wake-up.
CooperativeCancellation_C25 ==
    [][/\ cancelled = "woken" /\ cancelled' = "woken" =>
              Len(shown') <= Len(shown) /\ timers' <= timers
       /\ ~running /\ timers' < timers =>
              /\ Len(shown') = Len(shown)
              /\ entered' = entered
              /\ timers' = timers - 1
              /\ ~running']_vars

\* What does hold: the goroutine that wakes with s.running cleared shows no
\* frame, does not enter displayCurrentChunk and starts no other goroutine.
SleepingIterationStops ==
    [][~running /\ timers' < timers =>
              /\ Len(shown') = Len(shown)
              /\ entered' = entered
              /\ timers' = timers - 1
              /\ ~running']_vars

\* A frame shown after such a wake comes from a goroutine that was past the
\* first test of displayCurrentChunk when stopTransfer ran.
LateFrameFromEnteredGoroutine ==
    [][cancelled = "woken" /\ cancelled' = "woken" /\ Len(shown') > Len(shown) =>
              entered > 0 /\ entered' = entered - 1]_vars

\* C30: the sender's frame position is only reset by loading a file:
\* currentChunk never decreases under startTransfer, stopTransfer or a timer
\* wake-up; a startTransfer after a completed transfer displays no frame and
\* ends at once as complete; a startTransfer after a stop in mid-transfer
\* shows the next undisplayed frame, not the metadata frame again.
PositionResetOnlyByLoad_C30 ==
    [][/\ currentChunk' < currentChunk => \E f \in 1..Len(Files) : LoadFile(f)
       /\ StartTransfer /\ Len(chunks) # 0 /\ currentChunk > totalChunks =>
              /\ shown' = shown /\ currentChunk' = currentChunk
              /\ ~running' /\ status' = "Transfer complete!"
       /\ StartTransfer /\ currentChunk >= 1 /\ currentChunk <= totalChunks =>
              /\ Len(shown) = currentChunk
              /\ shown' = Append(shown, SerializeChunk(chunks[currentChunk][1]))
              /\ currentChunk' = currentChunk + 1]_vars

=============================================================================
